---------------------------- MODULE Spec2Model ----------------------------
(***************************************************************************)
(* A model of unikraft/governance (governctl).                             *)
(*                                                                         *)
(*   SpecMerge  the pull-request mergeability evaluator,                   *)
(*              PullRequest.SatisfiesMergeRequirements, with the option    *)
(*              functions that configure it and the GitHub calls it makes. *)
(*   SpecPop    the workload tracker of `pr sync reviewers`,               *)
(*              popLeastStressedMaintainer / popLeastStressedReviewer over *)
(*              pair.RankByWorkload.                                       *)
(*   SpecAssign the assignment step of `pr sync reviewers`,                *)
(*              Reviewers.updatePrWithPossibleMaintainersAndReviewers.     *)
(*   SpecSync   `team sync`: NewListOfTeamsFromPath, Sync.Run, Team.Sync   *)
(*              and GithubClient.SyncTeamMembers.                          *)
(*   SpecSyncAny  `team sync` over definitions whose parents need not form *)
(*              a hierarchy.                                               *)
(*   SpecLabels `pr sync labels`: Labels.Run and Label.AppliesTo.          *)
(*   SpecPrSync `pr sync reviewers` from the start of Reviewers.Run,       *)
(*              together with `pr sync labels`.                            *)
(*   SpecRepo   Repository.NameEquals and Repository.Fullname.             *)
(*   SpecMember GithubClient.UserMemberOfTeam, call after call.            *)
(*   SpecRun    `pr merge`: Merge.Run around the evaluator.                *)
(*                                                                         *)
(* Strings of the program are TLA+ strings.  A regular expression of the   *)
(* form  Key: (g1)(g2)...  is a record [key, names]: the literal it looks  *)
(* for and the names of its capture groups in order ("" for an unnamed     *)
(* group).  A comment or review body is a sequence of trailer lines        *)
(* [key, val].                                                             *)
(***************************************************************************)
EXTENDS Integers, Sequences, FiniteSets, TLC

VARIABLES
    \* ---- SatisfiesMergeRequirements ----
    pc,             \* position in the call: opts, comments, reviews, done, panic
    mopts,          \* the mergableOptions record
    nOpts,          \* how many option functions have been applied
    pull,           \* the github.PullRequest fetched, NoPull before
    nC,             \* issue comments scanned so far
    nR,             \* reviews scanned so far
    cur,            \* the comment or review scanned by the last loop iteration
    prApprovals,    \* the local counter prApprovals
    prReviews,      \* the local counter prReviews
    res,            \* the local map res: capture name -> sequence of captures
    result,         \* the returned triple (ok, res, err), NoResult before
    retAt,          \* the return statement taken: none, pull, gates, comments, reviews, check
    qualA,          \* history: scanned items that qualify as approvals (section 4.3 of the spec)
    qualR,          \* history: scanned items that qualify as reviews (section 4.3 of the spec)
    userTeamCache,  \* the package variable userTeamCache
    \* ---- workload tracker ----
    maintainerWorkload,  \* Reviewers.maintainerWorkload
    reviewerWorkload,    \* Reviewers.reviewerWorkload
    popped,              \* the last pop call: its kind, its subset and what it returned
    \* ---- updatePrWithPossibleMaintainersAndReviewers ----
    NumMaintainers,      \* Reviewers.NumMaintainers
    NumReviewers,        \* Reviewers.NumReviewers
    DryRun,              \* config.Config.DryRun
    possibleMaintainers, \* the parameter possibleMaintainers
    possibleReviewers,   \* the parameter possibleReviewers, as the removal loop leaves it
    maintainers,         \* the local list maintainers
    reviewers,           \* the local list reviewers
    ghPr,                \* the pull request on GitHub: assignees, review authors, requested reviewers
    assignErr,           \* what the call returned: none (not yet), nil, or the error
    \* ---- team sync ----
    files,               \* the team definitions in TeamsDir, in the order ReadDir lists them
    teams,               \* Sync.teams: the loaded []*Team
    ghTeams,             \* the teams of the organisation on GitHub
    calls,               \* history: the calls made to GitHub that change it, in order
    idx,                 \* Sync.Run: how many teams of the loop are done
    stack,               \* the active Team.Sync calls, innermost first, each with its position
    syncErr,             \* the error a Team.Sync or the load returned, NoSyncErr if none
    \* ---- pr sync reviewers, pr sync labels ----
    repoFiles,           \* the repository definitions in ReposDir
    repos,               \* the loaded []*Repository
    labelFiles,          \* the label definitions in LabelsDir of the cloned repository
    labels,              \* the loaded []Label
    diff,                \* the files of the pull request's diff
    ghRepo,              \* the repository named on the command line
    labelsToAdd,         \* the local list labelsToAdd
    applied,             \* history: the AppliesTo calls made, with what each returned
    runErr,              \* what Run returned: none (not yet), nil, or the error
    issued,              \* history: the GitHub calls and the git and gh commands issued, in order
    \* ---- Repository ----
    repo,                \* a Repository r
    asked,               \* the last r.NameEquals call and what it returned
    \* ---- UserMemberOfTeam ----
    checks,              \* history: the UserMemberOfTeam calls made, in order
    \* ---- pr merge ----
    NoCheckMergable,     \* Merge.NoCheckMergable
    Push,                \* Merge.Push
    ghAuth               \* the token the gh CLI is logged in with: user or tool

vars == <<pc, mopts, nOpts, pull, nC, nR, cur, prApprovals, prReviews, res,
          result, retAt, qualA, qualR, userTeamCache,
          maintainerWorkload, reviewerWorkload, popped,
          NumMaintainers, NumReviewers, DryRun, possibleMaintainers,
          possibleReviewers, maintainers, reviewers, ghPr, assignErr,
          files, teams, ghTeams, calls, idx, stack, syncErr,
          repoFiles, repos, labelFiles, labels, diff, ghRepo, labelsToAdd, applied,
          runErr, issued, repo, asked, checks, NoCheckMergable, Push, ghAuth>>

mergeVars == <<pc, mopts, nOpts, pull, nC, nR, cur, prApprovals, prReviews, res,
               result, retAt, qualA, qualR, userTeamCache>>

\* mergeVars without pc
evalVars == <<mopts, nOpts, pull, nC, nR, cur, prApprovals, prReviews, res,
              result, retAt, qualA, qualR, userTeamCache>>

popVars == <<maintainerWorkload, reviewerWorkload, popped>>

assignVars == <<NumMaintainers, NumReviewers, DryRun, possibleMaintainers,
                possibleReviewers, maintainers, reviewers, ghPr, assignErr>>

syncVars == <<files, teams, ghTeams, calls, idx, stack, syncErr>>

labelVars == <<repoFiles, repos, labelFiles, labels, diff, ghRepo, labelsToAdd,
               applied>>

loadVars == <<labelVars, runErr>>

repoVars == <<repo, asked, checks>>

runVars == <<NoCheckMergable, Push, ghAuth>>

cmdVars == <<loadVars, issued, repoVars, runVars>>

-----------------------------------------------------------------------------
(* Bounds *)

\* option functions passed to one SatisfiesMergeRequirements call
MaxOpts == 1

\* issue comments GitHub returns for the pull request
MaxComments == 2

\* reviews GitHub returns for the pull request
MaxReviews == 1

\* cap on a user's workload count
MaxLoad == 2

-----------------------------------------------------------------------------
(* The world the evaluator runs against *)

Users == {"alice", "bob"}

\* remote team membership, as ListTeamMembers reports it
TeamMembers == [t \in {"maint", "rev"} |->
                   IF t = "maint" THEN {"alice"} ELSE {"bob"}]

Teams == DOMAIN TeamMembers

NoPull == [fetched |-> FALSE, state |-> "", labels |-> {}, mergeable |-> FALSE,
           draft |-> FALSE, assignees |-> {}, requestedReviewers |-> {}]

PullRequests ==
    [fetched : {TRUE},
     state : {"open", "closed"},
     labels : {{}, {"ci/wait"}},
     mergeable : BOOLEAN,
     draft : BOOLEAN,
     assignees : {{}, {"bob"}},
     requestedReviewers : {{}, {"alice"}}]

Line(k, u) == [key |-> k, val |-> u]

\* bodies a user u writes: no trailer, an approval, a review, or both
Bodies(u) == { <<>>,
               <<Line("Approved-by", u)>>,
               <<Line("Reviewed-by", u)>>,
               <<Line("Approved-by", u), Line("Reviewed-by", u)>> }

Comments == UNION { [kind : {"comment"}, user : {u}, body : Bodies(u), state : {"comment"}]
                    : u \in Users }

Reviews == UNION { [kind : {"review"}, user : {u}, body : Bodies(u),
                    state : {"APPROVED", "COMMENTED"}] : u \in Users }

NoItem == [kind |-> "none", user |-> "", body |-> <<>>, state |-> ""]

-----------------------------------------------------------------------------
(* mergableOptions and the option functions *)

DefaultApproverComment == [key |-> "Approved-by", names |-> <<"approved_by">>]

DefaultReviewerComment == [key |-> "Reviewed-by", names |-> <<"reviewed_by">>]

\* "Approved-by: (?P<name>.*) <(?P<email>.*)>": one trailer, two named groups
NameEmailComment == [key |-> "Approved-by", names |-> <<"name", "email">>]

\* "Reviewed-by: (?P<name>.*) <(?P<email>.*)>"
NameEmailReview == [key |-> "Reviewed-by", names |-> <<"name", "email">>]

\* the literal with minReviews left at its zero value
InitialOptionsNoMinReviews ==
    [approverComments |-> <<>>, approverTeams |-> <<>>, approveStates |-> <<>>,
     ignoreLabels |-> <<>>, ignoreStates |-> <<>>, labels |-> <<>>,
     minApprovals |-> 1, minReviews |-> 0,
     noConflicts |-> FALSE, noDraft |-> FALSE,
     noRespectAssignees |-> FALSE, noRespectReviewers |-> FALSE,
     reviewerComments |-> <<>>, reviewerTeams |-> <<>>, reviewStates |-> <<>>,
     states |-> <<>>]

\* the mergableOptions literal SatisfiesMergeRequirements starts from
InitialOptions ==
    [approverComments |-> <<>>, approverTeams |-> <<>>, approveStates |-> <<>>,
     ignoreLabels |-> <<>>, ignoreStates |-> <<>>, labels |-> <<>>,
     minApprovals |-> 1, minReviews |-> 1,
     noConflicts |-> FALSE, noDraft |-> FALSE,
     noRespectAssignees |-> FALSE, noRespectReviewers |-> FALSE,
     reviewerComments |-> <<>>, reviewerTeams |-> <<>>, reviewStates |-> <<>>,
     states |-> <<>>]

WithApproverComments(o, a) == [o EXCEPT !.approverComments = @ \o a]

WithApproverTeams(o, a) == [o EXCEPT !.approverTeams = @ \o a]

WithApproveStates(o, a) == [o EXCEPT !.approveStates = @ \o a]

WithIgnoreLabels(o, a) == [o EXCEPT !.ignoreLabels = @ \o a]

WithIgnoreStates(o, a) == [o EXCEPT !.ignoreStates = @ \o a]

WithLabels(o, a) == [o EXCEPT !.labels = @ \o a]

WithMinApprovals(o, a) == [o EXCEPT !.minApprovals = a]

WithMinReviews(o, a) == [o EXCEPT !.minReviews = a]

WithNoConflicts(o, a) == [o EXCEPT !.noConflicts = a]

WithNoDraft(o, a) == [o EXCEPT !.noDraft = a]

WithNoRespectAssignees(o, a) == [o EXCEPT !.noRespectAssignees = a]

WithNoRespectReviewers(o, a) == [o EXCEPT !.noRespectReviewers = a]

WithReviewerComments(o, a) == [o EXCEPT !.reviewerComments = @ \o a]

WithReviewerTeams(o, a) == [o EXCEPT !.reviewerTeams = @ \o a]

WithReviewStates(o, a) == [o EXCEPT !.reviewStates = @ \o a]

WithStates(o, a) == [o EXCEPT !.states = @ \o a]

\* the option functions a caller passes, each with its argument
OptionValues ==
    { "approver-comments=name-email", "approver-teams=maint",
      "approve-states=approve", "approve-states=Approved",
      "ignore-labels=ci/wait", "ignore-states=open", "labels=ci/wait",
      "min-approvals=0", "min-approvals=2", "min-reviews=0", "min-reviews=2",
      "no-conflicts", "no-draft", "no-respect-assignees", "no-respect-reviewers",
      "reviewer-comments=name-email", "reviewer-teams=rev",
      "review-states=approved", "states=closed" }

\* opt(&mopts) for one option function
ApplyOpt(o, opt) ==
    CASE opt = "approver-comments=name-email" -> WithApproverComments(o, <<NameEmailComment>>)
      [] opt = "approver-teams=maint" -> WithApproverTeams(o, <<"maint">>)
      [] opt = "approve-states=approve" -> WithApproveStates(o, <<"approve">>)
      [] opt = "approve-states=Approved" -> WithApproveStates(o, <<"Approved">>)
      [] opt = "ignore-labels=ci/wait" -> WithIgnoreLabels(o, <<"ci/wait">>)
      [] opt = "ignore-states=open" -> WithIgnoreStates(o, <<"open">>)
      [] opt = "labels=ci/wait" -> WithLabels(o, <<"ci/wait">>)
      [] opt = "min-approvals=0" -> WithMinApprovals(o, 0)
      [] opt = "min-approvals=2" -> WithMinApprovals(o, 2)
      [] opt = "min-reviews=0" -> WithMinReviews(o, 0)
      [] opt = "min-reviews=2" -> WithMinReviews(o, 2)
      [] opt = "no-conflicts" -> WithNoConflicts(o, TRUE)
      [] opt = "no-draft" -> WithNoDraft(o, TRUE)
      [] opt = "no-respect-assignees" -> WithNoRespectAssignees(o, TRUE)
      [] opt = "no-respect-reviewers" -> WithNoRespectReviewers(o, TRUE)
      [] opt = "reviewer-comments=name-email" -> WithReviewerComments(o, <<NameEmailReview>>)
      [] opt = "reviewer-teams=rev" -> WithReviewerTeams(o, <<"rev">>)
      [] opt = "review-states=approved" -> WithReviewStates(o, <<"approved">>)
      [] opt = "states=closed" -> WithStates(o, <<"closed">>)

\* the defaults filled in after the options are applied
FillDefaults(o) ==
    [o EXCEPT
       !.approverComments = IF Len(@) = 0 THEN <<DefaultApproverComment>> ELSE @,
       !.reviewerComments = IF Len(@) = 0 THEN <<DefaultReviewerComment>> ELSE @]

Range(s) == { s[i] : i \in 1..Len(s) }

\* strings.ToLower on the state strings that occur
ToLower(s) ==
    CASE s = "APPROVED" -> "approved"
      [] s = "Approved" -> "approved"
      [] s = "COMMENTED" -> "commented"
      [] OTHER -> s

-----------------------------------------------------------------------------
(* The filters of mergableOptions *)

\* requestsState with no default: any state passes when no states are set
requestsStateAny(o, state) ==
    LET ret == IF Len(o.states) = 0 THEN TRUE
               ELSE state \in Range(o.states)
    IN  IF state \in Range(o.ignoreStates) THEN FALSE ELSE ret

requestsState(o, state) ==
    LET ret == IF Len(o.states) = 0 THEN state = "open"
               ELSE state \in Range(o.states)
    IN  IF state \in Range(o.ignoreStates) THEN FALSE ELSE ret

requestsApproveState(o, state) ==
    IF Len(o.approveStates) = 0 THEN TRUE
    ELSE \E i \in 1..Len(o.approveStates) :
            ToLower(state) = ToLower(o.approveStates[i])

requestsReviewState(o, state) ==
    IF Len(o.reviewStates) = 0 THEN TRUE
    ELSE \E i \in 1..Len(o.reviewStates) :
            ToLower(state) = ToLower(o.reviewStates[i])

requestsLabels(o, ls) ==
    LET ret == IF Len(o.labels) = 0 THEN TRUE
               ELSE Range(o.labels) \cap ls # {}
    IN  IF Range(o.ignoreLabels) \cap ls # {} THEN FALSE ELSE ret

\* the i-th submatch of a matched trailer line
Capture(line, i) == <<line.val, i>>

\* regexp.FindStringSubmatch finds the leftmost match: the first line with the key
FirstMatch(regEx, body) ==
    LET hits == { i \in 1..Len(body) : body[i].key = regEx.key }
    IN  IF hits = {} THEN 0 ELSE CHOOSE i \in hits : \A j \in hits : i <= j

\* getParams: SubexpNames()[i] -> match[i] for i > 0, empty without a match
getParams(regEx, body) ==
    LET m == FirstMatch(regEx, body)
        names == IF m = 0 THEN {} ELSE Range(regEx.names)
        last(n) == CHOOSE i \in 1..Len(regEx.names) :
                      /\ regEx.names[i] = n
                      /\ \A j \in 1..Len(regEx.names) : regEx.names[j] = n => j <= i
    IN  [n \in names |-> Capture(body[m], last(n))]

\* the loop of requestsApproverRegex / requestsReviewerRegex: later patterns
\* overwrite the keys of earlier ones
RECURSIVE mergeParams(_, _, _)
mergeParams(patterns, body, matches) ==
    IF patterns = <<>> THEN matches
    ELSE LET p == getParams(Head(patterns), body)
             merged == [k \in DOMAIN matches \cup DOMAIN p |->
                           IF k \in DOMAIN p THEN p[k] ELSE matches[k]]
         IN  mergeParams(Tail(patterns), body, merged)

EmptyMap == [k \in {} |-> <<>>]

requestsApproverRegex(o, body) ==
    IF Len(o.approverComments) = 0 THEN [ok |-> TRUE, matches |-> EmptyMap]
    ELSE LET matches == mergeParams(o.approverComments, body, EmptyMap)
         IN  [ok |-> DOMAIN matches # {}, matches |-> matches]

requestsReviewerRegex(o, body) ==
    IF Len(o.reviewerComments) = 0 THEN [ok |-> TRUE, matches |-> EmptyMap]
    ELSE LET matches == mergeParams(o.reviewerComments, body, EmptyMap)
         IN  [ok |-> DOMAIN matches # {}, matches |-> matches]

-----------------------------------------------------------------------------
(* GithubClient.UserMemberOfTeam and the team filters *)

\* a Go map variable: nil until some code makes it
NilMap == [isNil |-> TRUE, m |-> [u \in {} |-> <<>>]]

CacheHas(cache, username) == username \in DOMAIN cache.m

\* One call. down is the set of teams whose ListTeamMembers call fails.
\* Appending to an entry of the nil map is a run-time panic.
UserMemberOfTeam(cache, username, team, down) ==
    IF CacheHas(cache, username)
    THEN [ok |-> team \in Range(cache.m[username]), cache |-> cache, panic |-> FALSE]
    ELSE IF team \in down
    THEN [ok |-> FALSE, cache |-> cache, panic |-> FALSE]
    ELSE LET members == TeamMembers[team]
         IN  IF members = {}
             THEN [ok |-> FALSE, cache |-> cache, panic |-> FALSE]
             ELSE IF cache.isNil
             THEN [ok |-> FALSE, cache |-> cache, panic |-> TRUE]
             ELSE LET cached == [u \in DOMAIN cache.m \cup members |->
                                   IF u \in members
                                   THEN (IF u \in DOMAIN cache.m THEN cache.m[u] ELSE <<>>)
                                        \o <<team>>
                                   ELSE cache.m[u]]
                  IN  [ok |-> /\ username \in DOMAIN cached
                              /\ team \in Range(cached[username]),
                       cache |-> [cache EXCEPT !.m = cached], panic |-> FALSE]

\* for _, t := range teams { if ok, _ := UserMemberOfTeam(username, t); ok { return true } }
RECURSIVE anyTeam(_, _, _, _)
anyTeam(cache, username, ts, down) ==
    IF ts = <<>> THEN [ok |-> FALSE, cache |-> cache, panic |-> FALSE]
    ELSE LET r == UserMemberOfTeam(cache, username, Head(ts), down)
         IN  IF r.panic \/ r.ok THEN r
             ELSE anyTeam(r.cache, username, Tail(ts), down)

requestsReviewerTeam(o, cache, pr, username, down) ==
    IF ~o.noRespectReviewers
    THEN [ok |-> TRUE, cache |-> cache, panic |-> FALSE]
    ELSE anyTeam(cache, username, o.reviewerTeams, down)

requestsApproverTeam(o, cache, pr, username, down) ==
    IF ~o.noRespectAssignees /\ username \in pr.assignees
    THEN [ok |-> TRUE, cache |-> cache, panic |-> FALSE]
    ELSE anyTeam(cache, username, o.approverTeams, down)

-----------------------------------------------------------------------------
(* The two scanning loops of SatisfiesMergeRequirements *)

\* for k, v := range matches { res[k] = append(res[k], v) }
appendMatches(r, matches) ==
    [k \in DOMAIN r \cup DOMAIN matches |->
        (IF k \in DOMAIN r THEN r[k] ELSE <<>>)
        \o (IF k \in DOMAIN matches THEN <<matches[k]>> ELSE <<>>)]

\* the counter is incremented inside the loop over matches: once per key
countMatches(matches) == Cardinality(DOMAIN matches)

NoTeamCall(cache) == [ok |-> FALSE, cache |-> cache, panic |-> FALSE]

\* the approver half of one iteration; skip is the `continue`
approverHalf(o, pr, acc, item, state, down) ==
    LET a  == requestsApproverRegex(o, item.body)
        at == IF a.ok THEN requestsApproverTeam(o, acc.cache, pr, item.user, down)
              ELSE NoTeamCall(acc.cache)
    IN  IF at.panic THEN [acc EXCEPT !.panic = TRUE]
        ELSE IF ~(a.ok /\ at.ok) THEN [acc EXCEPT !.cache = at.cache]
        ELSE IF ~requestsApproveState(o, state)
        THEN [acc EXCEPT !.cache = at.cache, !.skip = TRUE]
        ELSE [acc EXCEPT !.cache = at.cache,
                         !.res = appendMatches(@, a.matches),
                         !.prApprovals = @ + countMatches(a.matches)]

\* the reviewer half of one iteration; filtered says whether the review-state
\* filter applies (reviews) or not (issue comments)
reviewerHalf(o, pr, acc, item, filtered, down) ==
    LET r  == requestsReviewerRegex(o, item.body)
        rt == IF r.ok THEN requestsReviewerTeam(o, acc.cache, pr, item.user, down)
              ELSE NoTeamCall(acc.cache)
    IN  IF rt.panic THEN [acc EXCEPT !.panic = TRUE]
        ELSE IF ~(r.ok /\ rt.ok) THEN [acc EXCEPT !.cache = rt.cache]
        ELSE IF filtered /\ ~requestsReviewState(o, item.state)
        THEN [acc EXCEPT !.cache = rt.cache, !.skip = TRUE]
        ELSE [acc EXCEPT !.cache = rt.cache,
                         !.res = appendMatches(@, r.matches),
                         !.prReviews = @ + countMatches(r.matches)]

\* one iteration of `for _, c := range comments`
scanComment(o, pr, acc, c, down) ==
    LET h == approverHalf(o, pr, acc, c, "comment", down)
    IN  IF h.panic \/ h.skip THEN h
        ELSE reviewerHalf(o, pr, h, c, FALSE, down)

\* one iteration of `for _, r := range reviews`
scanReview(o, pr, acc, r, down) ==
    LET h == approverHalf(o, pr, acc, r, r.state, down)
    IN  IF h.panic \/ h.skip THEN h
        ELSE reviewerHalf(o, pr, h, r, TRUE, down)

\* the final test with && in place of ||
belowMinimumBoth(o, approvals, reviews) ==
    approvals < o.minApprovals /\ reviews < o.minReviews

\* the final test on the two counters
belowMinimum(o, approvals, reviews) ==
    approvals < o.minApprovals \/ reviews < o.minReviews

-----------------------------------------------------------------------------
(* What SatisfiesMergeRequirements returns *)

Err(kind) == [kind |-> kind, approvals |-> 0, minApprovals |-> 0,
              reviews |-> 0, minReviews |-> 0]

\* a nil error
NoErr == Err("nil")

\* "... minimum number approvers (%d/%d) and reviewers (%d/%d)"
CountsErr(o, approvals, reviews) ==
    [kind |-> "counts", approvals |-> approvals, minApprovals |-> o.minApprovals,
     reviews |-> reviews, minReviews |-> o.minReviews]

NoResult == [returned |-> FALSE, ok |-> FALSE, resNil |-> TRUE, res |-> EmptyMap,
             err |-> NoErr]

\* return false, nil, fmt.Errorf(...)
Failure(e) == [returned |-> TRUE, ok |-> FALSE, resNil |-> TRUE, res |-> EmptyMap,
               err |-> e]

\* return true, res, nil
Success(r) == [returned |-> TRUE, ok |-> TRUE, resNil |-> FALSE, res |-> r,
               err |-> NoErr]

\* the four checks on the fetched pull request, in the order of the code
gates(o, pr) ==
    IF ~requestsState(o, pr.state) THEN "state"
    ELSE IF ~requestsLabels(o, pr.labels) THEN "labels"
    ELSE IF o.noConflicts /\ ~pr.mergeable THEN "conflicts"
    ELSE IF pr.draft THEN "draft"
    ELSE "pass"

\* the tail of the function, after both loops
finalCheck(o, approvals, reviews, r) ==
    IF belowMinimum(o, approvals, reviews)
    THEN Failure(CountsErr(o, approvals, reviews))
    ELSE Success(r)

-----------------------------------------------------------------------------
(* History: which scanned items qualify, by the answers the filters gave *)

QualApproval(o, cache, pr, item, down) ==
    /\ requestsApproverRegex(o, item.body).ok
    /\ requestsApproverTeam(o, cache, pr, item.user, down).ok
    /\ requestsApproveState(o, item.state)

QualReview(o, cache, pr, item, down) ==
    /\ requestsReviewerRegex(o, item.body).ok
    /\ requestsReviewerTeam(o, cache, pr, item.user, down).ok
    /\ (item.kind = "review" => requestsReviewState(o, item.state))

-----------------------------------------------------------------------------
(* Actions of SatisfiesMergeRequirements *)

EmptyLoad == [u \in {} |-> 0]

NoPop == [kind |-> "none", subset |-> {}, least |-> ""]

\* the pull request on GitHub before anything is known of it
NoGhPr == [assignees |-> <<>>, reviewUsers |-> <<>>, requestedReviewers |-> <<>>]

\* `pr sync reviewers` is not running
AssignIdle ==
    /\ NumMaintainers = 1
    /\ NumReviewers = 1
    /\ DryRun = FALSE
    /\ possibleMaintainers = <<>>
    /\ possibleReviewers = <<>>
    /\ maintainers = <<>>
    /\ reviewers = <<>>
    /\ ghPr = NoGhPr
    /\ assignErr = "none"

NoSyncErr == [kind |-> "nil", team |-> <<>>, user |-> ""]

NoGhTeams == [n \in {} |-> [parent |-> <<>>, members |-> {}]]

\* `team sync` is not running
SyncIdle ==
    /\ files = <<>>
    /\ teams = <<>>
    /\ ghTeams = NoGhTeams
    /\ calls = <<>>
    /\ idx = 0
    /\ stack = <<>>
    /\ syncErr = NoSyncErr

\* a call or command that only reads
Read(c) == [call |-> c, mutates |-> FALSE]

\* a call or command that changes what it reaches
Write(c) == [call |-> c, mutates |-> TRUE]

\* the test with the flag ignored
goesOutAlways(dryRun) == TRUE

\* `if !kitcfg.G[config.Config](ctx).DryRun { ... }`: whether the guarded
\* call goes out
goesOut(dryRun) == ~dryRun

NoRepo == [Type |-> "", Name |-> <<>>, fullname |-> <<>>]

NotAsked == [called |-> FALSE, name |-> <<>>, equal |-> FALSE]

\* no SatisfiesMergeRequirements call is running and no workload is counted
EvalIdle ==
    /\ mopts = InitialOptions
    /\ nOpts = 0
    /\ pull = NoPull
    /\ nC = 0
    /\ nR = 0
    /\ cur = NoItem
    /\ prApprovals = 0
    /\ prReviews = 0
    /\ res = EmptyMap
    /\ result = NoResult
    /\ retAt = "none"
    /\ qualA = 0
    /\ qualR = 0
    /\ userTeamCache = NilMap
    /\ maintainerWorkload = EmptyLoad
    /\ reviewerWorkload = EmptyLoad
    /\ popped = NoPop

\* none of the other commands is running
CmdIdle ==
    /\ repoFiles = <<>>
    /\ repos = <<>>
    /\ labelFiles = <<>>
    /\ labels = <<>>
    /\ diff = <<>>
    /\ ghRepo = ""
    /\ labelsToAdd = <<>>
    /\ applied = {}
    /\ runErr = "none"
    /\ issued = <<>>
    /\ repo = NoRepo
    /\ asked = NotAsked
    /\ checks = <<>>
    /\ NoCheckMergable = FALSE
    /\ Push = FALSE
    /\ ghAuth = "user"

InitMerge ==
    /\ pc = "opts"
    /\ mopts = InitialOptions
    /\ nOpts = 0
    /\ pull = NoPull
    /\ nC = 0
    /\ nR = 0
    /\ cur = NoItem
    /\ prApprovals = 0
    /\ prReviews = 0
    /\ res = EmptyMap
    /\ result = NoResult
    /\ retAt = "none"
    /\ qualA = 0
    /\ qualR = 0
    /\ userTeamCache = NilMap
    /\ maintainerWorkload = EmptyLoad
    /\ reviewerWorkload = EmptyLoad
    /\ popped = NoPop
    /\ AssignIdle
    /\ SyncIdle
    /\ CmdIdle

\* for _, opt := range opts { opt(&mopts) }
ApplyOption ==
    /\ pc = "opts"
    /\ nOpts < MaxOpts
    /\ \E opt \in OptionValues : mopts' = ApplyOpt(mopts, opt)
    /\ nOpts' = nOpts + 1
    /\ UNCHANGED <<pc, pull, nC, nR, cur, prApprovals, prReviews, res, result,
                   retAt, qualA, qualR, userTeamCache, popVars, assignVars, syncVars, cmdVars>>

\* GetPullRequest returns an error
GetPullRequestFails ==
    /\ pc = "opts"
    /\ mopts' = FillDefaults(mopts)
    /\ result' = Failure(Err("get-pull"))
    /\ retAt' = "pull"
    /\ pc' = "done"
    /\ UNCHANGED <<nOpts, pull, nC, nR, cur, prApprovals, prReviews, res,
                   qualA, qualR, userTeamCache, popVars, assignVars, syncVars, cmdVars>>

\* GetPullRequest returns the pull request, and the four gates run on it
GetPullRequest ==
    /\ pc = "opts"
    /\ mopts' = FillDefaults(mopts)
    /\ \E p \in PullRequests :
          /\ pull' = p
          /\ LET g == gates(mopts', p)
             IN  IF g = "pass"
                 THEN /\ pc' = "comments"
                      /\ UNCHANGED <<result, retAt>>
                 ELSE /\ pc' = "done"
                      /\ result' = Failure(Err(g))
                      /\ retAt' = "gates"
    /\ UNCHANGED <<nOpts, nC, nR, cur, prApprovals, prReviews, res,
                   qualA, qualR, userTeamCache, popVars, assignVars, syncVars, cmdVars>>

\* ListPullRequestComments returns an error
ListCommentsFails ==
    /\ pc = "comments"
    /\ nC = 0
    /\ result' = Failure(Err("list-comments"))
    /\ retAt' = "comments"
    /\ pc' = "done"
    /\ UNCHANGED <<mopts, nOpts, pull, nC, nR, cur, prApprovals, prReviews, res,
                   qualA, qualR, userTeamCache, popVars, assignVars, syncVars, cmdVars>>

Acc == [prApprovals |-> prApprovals, prReviews |-> prReviews, res |-> res,
        cache |-> userTeamCache, panic |-> FALSE, skip |-> FALSE]

\* what one loop iteration leaves behind
Scanned(acc, item, down) ==
    IF acc.panic
    THEN /\ pc' = "panic"
         /\ UNCHANGED <<prApprovals, prReviews, res, qualA, qualR, userTeamCache>>
    ELSE /\ pc' = pc
         /\ prApprovals' = acc.prApprovals
         /\ prReviews' = acc.prReviews
         /\ res' = acc.res
         /\ userTeamCache' = acc.cache
         /\ qualA' = qualA + (IF QualApproval(mopts, userTeamCache, pull, item, down)
                              THEN 1 ELSE 0)
         /\ qualR' = qualR + (IF QualReview(mopts, userTeamCache, pull, item, down)
                              THEN 1 ELSE 0)

\* the next issue comment of the list is scanned
ScanComment ==
    /\ pc = "comments"
    /\ nC < MaxComments
    /\ \E c \in Comments, down \in SUBSET Teams :
          /\ cur' = c
          /\ Scanned(scanComment(mopts, pull, Acc, c, down), c, down)
    /\ nC' = nC + 1
    /\ UNCHANGED <<mopts, nOpts, pull, nR, result, retAt, popVars, assignVars, syncVars, cmdVars>>

\* the comments are exhausted and ListPullRequestReviews returns an error
ListReviewsFails ==
    /\ pc = "comments"
    /\ result' = Failure(Err("list-reviews"))
    /\ retAt' = "reviews"
    /\ pc' = "done"
    /\ UNCHANGED <<mopts, nOpts, pull, nC, nR, cur, prApprovals, prReviews, res,
                   qualA, qualR, userTeamCache, popVars, assignVars, syncVars, cmdVars>>

\* the comments are exhausted and ListPullRequestReviews returns the reviews
ListReviews ==
    /\ pc = "comments"
    /\ pc' = "reviews"
    /\ UNCHANGED <<mopts, nOpts, pull, nC, nR, cur, prApprovals, prReviews, res,
                   result, retAt, qualA, qualR, userTeamCache, popVars, assignVars, syncVars, cmdVars>>

\* the next review of the list is scanned
ScanReview ==
    /\ pc = "reviews"
    /\ nR < MaxReviews
    /\ \E r \in Reviews, down \in SUBSET Teams :
          /\ cur' = r
          /\ Scanned(scanReview(mopts, pull, Acc, r, down), r, down)
    /\ nR' = nR + 1
    /\ UNCHANGED <<mopts, nOpts, pull, nC, result, retAt, popVars, assignVars, syncVars, cmdVars>>

\* the reviews are exhausted: the counters are tested and the call returns
Check ==
    /\ pc = "reviews"
    /\ result' = finalCheck(mopts, prApprovals, prReviews, res)
    /\ retAt' = "check"
    /\ pc' = "done"
    /\ UNCHANGED <<mopts, nOpts, pull, nC, nR, cur, prApprovals, prReviews, res,
                   qualA, qualR, userTeamCache, popVars, assignVars, syncVars, cmdVars>>

NextMerge ==
    \/ ApplyOption
    \/ GetPullRequestFails
    \/ GetPullRequest
    \/ ListCommentsFails
    \/ ScanComment
    \/ ListReviewsFails
    \/ ListReviews
    \/ ScanReview
    \/ Check

SpecMerge == InitMerge /\ [][NextMerge]_vars

-----------------------------------------------------------------------------
(* The workload tracker of `pr sync reviewers` *)

Handles == {"alice", "bob", "carol"}

\* a map[string]int over some of the handles
Workloads == UNION { [d -> 0..MaxLoad] : d \in SUBSET Handles }

Pair(k, v) == [Key |-> k, Value |-> v]

\* Less with the comparison turned round
LessDescending(p, q) == p.Value > q.Value

\* PairList.Less
Less(p, q) == p.Value < q.Value

\* pair.RankByWorkload: the pairs of the map in the order sort.Sort leaves them.
\* Map iteration order is random and sort.Sort is not stable, so every
\* arrangement in which no pair is Less than one before it is a possible result.
RankByWorkload(users) ==
    LET n == Cardinality(DOMAIN users)
    IN  { pl \in [1..n -> { Pair(k, users[k]) : k \in DOMAIN users }] :
            /\ \A i, j \in 1..n : i # j => pl[i].Key # pl[j].Key
            /\ \A i, j \in 1..n : i < j => ~Less(pl[j], pl[i]) }

\* the loop over subset without its `!ok` test: every candidate is reset to 0
enterCandidatesReset(workload, subset) ==
    [u \in DOMAIN workload \cup subset |->
        IF u \in subset THEN 0 ELSE workload[u]]

\* the loop over subset: absent candidates are entered with 0
enterCandidates(workload, subset) ==
    [u \in DOMAIN workload \cup subset |->
        IF u \in DOMAIN workload THEN workload[u] ELSE 0]

\* the local map handed to RankByWorkload
candidateLoads(workload, subset) == [u \in subset |-> workload[u]]

\* opts.maintainerWorkload[least]++
reserve(workload, least) == [workload EXCEPT ![least] = @ + 1]

\* popLeastStressedMaintainer / popLeastStressedReviewer on one of the two maps:
\* the possible outcomes [least, workload]
popLeastStressed(workload, subset) ==
    LET entered == enterCandidates(workload, subset)
    IN  { [least |-> sorted[1].Key, workload |-> reserve(entered, sorted[1].Key)] :
            sorted \in RankByWorkload(candidateLoads(entered, subset)) }

\* the least count among the candidates, absent ones counted as 0
LoadOf(workload, u) == IF u \in DOMAIN workload THEN workload[u] ELSE 0

MinLoad(workload, subset) ==
    CHOOSE m \in 0..MaxLoad :
        /\ \E u \in subset : LoadOf(workload, u) = m
        /\ \A u \in subset : LoadOf(workload, u) >= m

InitPop ==
    /\ pc = "pop"
    /\ mopts = InitialOptions
    /\ nOpts = 0
    /\ pull = NoPull
    /\ nC = 0
    /\ nR = 0
    /\ cur = NoItem
    /\ prApprovals = 0
    /\ prReviews = 0
    /\ res = EmptyMap
    /\ result = NoResult
    /\ retAt = "none"
    /\ qualA = 0
    /\ qualR = 0
    /\ userTeamCache = NilMap
    /\ maintainerWorkload \in Workloads
    /\ reviewerWorkload \in Workloads
    /\ popped = NoPop
    /\ AssignIdle
    /\ SyncIdle
    /\ CmdIdle

\* sorted[0] of an empty list is an index out of range: a run-time panic
popLeastStressedMaintainer ==
    /\ pc = "pop"
    /\ \E subset \in SUBSET Handles :
          IF subset = {}
          THEN /\ pc' = "panic"
               /\ popped' = [kind |-> "maintainer", subset |-> subset, least |-> ""]
               /\ UNCHANGED maintainerWorkload
          ELSE /\ MinLoad(maintainerWorkload, subset) < MaxLoad
               /\ \E out \in popLeastStressed(maintainerWorkload, subset) :
                     /\ maintainerWorkload' = out.workload
                     /\ popped' = [kind |-> "maintainer", subset |-> subset,
                                   least |-> out.least]
               /\ pc' = pc
    /\ UNCHANGED <<evalVars, cmdVars, assignVars, syncVars, reviewerWorkload>>

popLeastStressedReviewer ==
    /\ pc = "pop"
    /\ \E subset \in SUBSET Handles :
          IF subset = {}
          THEN /\ pc' = "panic"
               /\ popped' = [kind |-> "reviewer", subset |-> subset, least |-> ""]
               /\ UNCHANGED reviewerWorkload
          ELSE /\ MinLoad(reviewerWorkload, subset) < MaxLoad
               /\ \E out \in popLeastStressed(reviewerWorkload, subset) :
                     /\ reviewerWorkload' = out.workload
                     /\ popped' = [kind |-> "reviewer", subset |-> subset,
                                   least |-> out.least]
               /\ pc' = pc
    /\ UNCHANGED <<evalVars, cmdVars, assignVars, syncVars, maintainerWorkload>>

NextPop ==
    \/ popLeastStressedMaintainer
    \/ popLeastStressedReviewer

SpecPop == InitPop /\ [][NextPop]_vars

-----------------------------------------------------------------------------
(* `pr sync reviewers`: updatePrWithPossibleMaintainersAndReviewers *)

\* candidates handed to one call
MaxCandidates == 2

\* Reviewers.NumMaintainers and Reviewers.NumReviewers go up to
MaxNum == 2

\* Run builds both candidate lists with containsStr: no name twice
CandidateLists ==
    { s \in UNION { [1..n -> Handles] : n \in 0..MaxCandidates } :
        \A i, j \in DOMAIN s : i # j => s[i] # s[j] }

\* the workload maps Run has filled from the open pull requests
AssignLoads == {EmptyLoad} \cup [{"alice", "bob"} -> {0, MaxLoad}]

\* the pull request as GitHub holds it when the call starts
GhPrs ==
    { NoGhPr,
      [NoGhPr EXCEPT !.assignees = <<"bob">>],
      [NoGhPr EXCEPT !.reviewUsers = <<"alice">>],
      [NoGhPr EXCEPT !.requestedReviewers = <<"bob">>] }

\* the names of s not in have, appended to have (GitHub keeps each user once)
RECURSIVE addUsers(_, _)
addUsers(have, s) ==
    IF s = <<>> THEN have
    ELSE addUsers(IF Head(s) \in Range(have) THEN have ELSE Append(have, Head(s)),
                  Tail(s))

\* the inner loop `for i, reviewer := range possibleReviewers` for one
\* maintainer.  range walks the slice as it was when the loop began (arr, all
\* of its length); possibleReviewers (the first n elements of the same array)
\* is re-sliced in place on a match.  possibleReviewers[i+1:] past its length
\* is a run-time panic.
RECURSIVE removeScan(_, _, _, _)
removeScan(arr, n, i, maintainer) ==
    IF i > Len(arr) THEN [arr |-> arr, n |-> n, panic |-> FALSE]
    ELSE IF arr[i] # maintainer THEN removeScan(arr, n, i + 1, maintainer)
    ELSE IF i > n THEN [arr |-> arr, n |-> n, panic |-> TRUE]
    ELSE removeScan([k \in 1..Len(arr) |->
                        IF k >= i /\ k < n THEN arr[k + 1] ELSE arr[k]],
                    n - 1, i + 1, maintainer)

\* the outer loop `for _, maintainer := range maintainers`
RECURSIVE removeAssigned(_, _)
removeAssigned(possible, assigned) ==
    IF assigned = <<>> THEN [list |-> possible, panic |-> FALSE]
    ELSE LET r == removeScan(possible, Len(possible), 1, Head(assigned))
         IN  IF r.panic THEN [list |-> possible, panic |-> TRUE]
             ELSE removeAssigned(SubSeq(r.arr, 1, r.n), Tail(assigned))

InitAssign ==
    /\ pc = "assign"
    /\ mopts = InitialOptions
    /\ nOpts = 0
    /\ pull = NoPull
    /\ nC = 0
    /\ nR = 0
    /\ cur = NoItem
    /\ prApprovals = 0
    /\ prReviews = 0
    /\ res = EmptyMap
    /\ result = NoResult
    /\ retAt = "none"
    /\ qualA = 0
    /\ qualR = 0
    /\ userTeamCache = NilMap
    /\ maintainerWorkload \in AssignLoads
    /\ reviewerWorkload \in AssignLoads
    /\ popped = NoPop
    /\ NumMaintainers \in 1..MaxNum
    /\ NumReviewers \in 1..MaxNum
    /\ DryRun \in BOOLEAN
    /\ possibleMaintainers \in CandidateLists
    /\ possibleReviewers \in CandidateLists
    /\ maintainers = <<>>
    /\ reviewers = <<>>
    /\ ghPr \in GhPrs
    /\ assignErr = "none"
    /\ SyncIdle
    /\ CmdIdle

\* the two length checks, then GetMaintainersOnPr
GetMaintainersOnPr ==
    /\ pc = "assign"
    /\ IF Len(possibleMaintainers) = 0 \/ Len(possibleReviewers) = 0
       THEN /\ assignErr' = "could not assign reviewers as none provided"
            /\ pc' = "returned"
            /\ UNCHANGED <<maintainers, issued>>
       ELSE /\ maintainers' = ghPr.assignees
            /\ issued' = Append(issued, Read("GetMaintainersOnPr"))
            /\ pc' = IF Len(ghPr.assignees) = 0 THEN "popM" ELSE "overlap"
            /\ UNCHANGED assignErr
    /\ UNCHANGED <<evalVars, loadVars, repoVars, runVars, popVars, syncVars, NumMaintainers, NumReviewers, DryRun,
                   possibleMaintainers, possibleReviewers, reviewers, ghPr>>

\* GetMaintainersOnPr returns an error
GetMaintainersOnPrFails ==
    /\ pc = "assign"
    /\ Len(possibleMaintainers) > 0
    /\ Len(possibleReviewers) > 0
    /\ assignErr' = "could not get pull request"
    /\ issued' = Append(issued, Read("GetMaintainersOnPr"))
    /\ pc' = "returned"
    /\ UNCHANGED <<evalVars, loadVars, repoVars, runVars, popVars, syncVars, NumMaintainers, NumReviewers, DryRun,
                   possibleMaintainers, possibleReviewers, maintainers, reviewers, ghPr>>

\* one iteration of `for i := 0; i < opts.NumMaintainers; i++`
AssignMaintainer ==
    /\ pc = "popM"
    /\ Len(maintainers) < NumMaintainers
    /\ MinLoad(maintainerWorkload, Range(possibleMaintainers)) < MaxLoad
    /\ \E out \in popLeastStressed(maintainerWorkload, Range(possibleMaintainers)) :
          /\ maintainerWorkload' = out.workload
          /\ maintainers' = Append(maintainers, out.least)
          /\ popped' = [kind |-> "maintainer", subset |-> Range(possibleMaintainers),
                        least |-> out.least]
    /\ UNCHANGED <<pc, evalVars, cmdVars, syncVars, reviewerWorkload, NumMaintainers,
                   NumReviewers, DryRun, possibleMaintainers, possibleReviewers,
                   reviewers, ghPr, assignErr>>

\* after the loop: AddMaintainersToPr unless DryRun
AddMaintainersToPr ==
    /\ pc = "popM"
    /\ Len(maintainers) >= NumMaintainers
    /\ IF goesOut(DryRun)
       THEN /\ ghPr' = [ghPr EXCEPT !.assignees = addUsers(@, maintainers)]
            /\ issued' = Append(issued, Write("AddMaintainersToPr"))
       ELSE UNCHANGED <<ghPr, issued>>
    /\ pc' = "overlap"
    /\ UNCHANGED <<evalVars, loadVars, repoVars, runVars, popVars, syncVars, NumMaintainers, NumReviewers, DryRun,
                   possibleMaintainers, possibleReviewers, maintainers, reviewers,
                   assignErr>>

\* AddMaintainersToPr returns an error
AddMaintainersToPrFails ==
    /\ pc = "popM"
    /\ Len(maintainers) >= NumMaintainers
    /\ goesOut(DryRun)
    /\ assignErr' = "could not add maintainers"
    /\ issued' = Append(issued, Write("AddMaintainersToPr"))
    /\ pc' = "returned"
    /\ UNCHANGED <<evalVars, loadVars, repoVars, runVars, popVars, syncVars, NumMaintainers, NumReviewers, DryRun,
                   possibleMaintainers, possibleReviewers, maintainers, reviewers, ghPr>>

\* the removal of the assigned maintainers from possibleReviewers, then
\* GetReviewUsersOnPr (its error is dropped) and GetReviewersOnPr
ListReviewers ==
    /\ pc = "overlap"
    /\ LET rem == removeAssigned(possibleReviewers, maintainers)
       IN  IF rem.panic
           THEN /\ pc' = "panic"
                /\ UNCHANGED <<possibleReviewers, reviewers, assignErr, issued>>
           ELSE /\ possibleReviewers' = rem.list
                /\ issued' = issued \o <<Read("GetReviewUsersOnPr"),
                                          Read("GetReviewersOnPr")>>
                /\ \E reviewsDown \in BOOLEAN :
                      reviewers' = (IF reviewsDown THEN <<>> ELSE ghPr.reviewUsers)
                                       \o ghPr.requestedReviewers
                /\ pc' = IF Len(reviewers') = 0 THEN "popR" ELSE "returned"
                /\ assignErr' = IF Len(reviewers') = 0 THEN assignErr ELSE "nil"
    /\ UNCHANGED <<evalVars, loadVars, repoVars, runVars, popVars, syncVars, NumMaintainers, NumReviewers, DryRun,
                   possibleMaintainers, maintainers, ghPr>>

\* GetReviewersOnPr returns an error
GetReviewersOnPrFails ==
    /\ pc = "overlap"
    /\ LET rem == removeAssigned(possibleReviewers, maintainers)
       IN  /\ ~rem.panic
           /\ possibleReviewers' = rem.list
    /\ assignErr' = "could not list reviewers"
    /\ issued' = issued \o <<Read("GetReviewUsersOnPr"), Read("GetReviewersOnPr")>>
    /\ pc' = "returned"
    /\ UNCHANGED <<evalVars, loadVars, repoVars, runVars, popVars, syncVars, NumMaintainers, NumReviewers, DryRun,
                   possibleMaintainers, maintainers, reviewers, ghPr>>

\* one iteration of `for i := len(reviewers); i < opts.NumReviewers; i++`
AssignReviewer ==
    /\ pc = "popR"
    /\ Len(reviewers) < NumReviewers
    /\ IF possibleReviewers = <<>>
       THEN /\ pc' = "panic"
            /\ popped' = [kind |-> "reviewer", subset |-> {}, least |-> ""]
            /\ UNCHANGED <<reviewerWorkload, reviewers>>
       ELSE /\ MinLoad(reviewerWorkload, Range(possibleReviewers)) < MaxLoad
            /\ \E out \in popLeastStressed(reviewerWorkload, Range(possibleReviewers)) :
                  /\ reviewerWorkload' = out.workload
                  /\ reviewers' = Append(reviewers, out.least)
                  /\ popped' = [kind |-> "reviewer",
                                subset |-> Range(possibleReviewers),
                                least |-> out.least]
            /\ pc' = pc
    /\ UNCHANGED <<evalVars, cmdVars, syncVars, maintainerWorkload, NumMaintainers,
                   NumReviewers, DryRun, possibleMaintainers, possibleReviewers,
                   maintainers, ghPr, assignErr>>

\* after the loop: AddReviewersToPr unless DryRun, then return nil
AddReviewersToPr ==
    /\ pc = "popR"
    /\ Len(reviewers) >= NumReviewers
    /\ IF goesOut(DryRun) /\ Len(reviewers) > 0
       THEN /\ ghPr' = [ghPr EXCEPT !.requestedReviewers = addUsers(@, reviewers)]
            /\ issued' = Append(issued, Write("AddReviewersToPr"))
       ELSE UNCHANGED <<ghPr, issued>>
    /\ assignErr' = "nil"
    /\ pc' = "returned"
    /\ UNCHANGED <<evalVars, loadVars, repoVars, runVars, popVars, syncVars, NumMaintainers, NumReviewers, DryRun,
                   possibleMaintainers, possibleReviewers, maintainers, reviewers>>

\* AddReviewersToPr returns an error
AddReviewersToPrFails ==
    /\ pc = "popR"
    /\ Len(reviewers) >= NumReviewers
    /\ goesOut(DryRun)
    /\ Len(reviewers) > 0
    /\ assignErr' = "could not add reviewer"
    /\ issued' = Append(issued, Write("AddReviewersToPr"))
    /\ pc' = "returned"
    /\ UNCHANGED <<evalVars, loadVars, repoVars, runVars, popVars, syncVars, NumMaintainers, NumReviewers, DryRun,
                   possibleMaintainers, possibleReviewers, maintainers, reviewers, ghPr>>

NextAssign ==
    \/ GetMaintainersOnPr
    \/ GetMaintainersOnPrFails
    \/ AssignMaintainer
    \/ AddMaintainersToPr
    \/ AddMaintainersToPrFails
    \/ ListReviewers
    \/ GetReviewersOnPrFails
    \/ AssignReviewer
    \/ AddReviewersToPr
    \/ AddReviewersToPrFails

SpecAssign == InitAssign /\ [][NextAssign]_vars

-----------------------------------------------------------------------------
(* `team sync`: NewListOfTeamsFromPath, Sync.Run, Team.Sync, SyncTeamMembers *)
(*                                                                          *)
(* A team name is the sequence of its parts between dashes: "sig-net" is   *)
(* <<"sig", "net">>, so strings.Split is the sequence itself and           *)
(* strings.Join(split[1:], "-") its Tail.  The empty name is <<>>.  GitHub *)
(* is a store of teams by name; the ID of a team stands for its name, and  *)
(* the members of a team change by the membership calls only.              *)

\* team definition files in TeamsDir
MaxTeams == 3

\* nested Team.Sync calls the stack of the goroutine has room for
MaxDepth == 4

TeamTypes == <<"sig", "maintainers", "reviewers">>

\* the names of the teams that may be defined in TeamsDir
TeamNames == {<<"sig", "net">>, <<"sig", "app">>, <<"lib">>}

\* what a yaml file may hold beside the name: an optional parent (the name
\* of a team as README.md writes it) and the people
Definitions ==
    { d \in [Parent : {<<>>} \cup TeamNames,
             Maintainers : {<<>>, <<"alice">>}, Reviewers : {<<>>, <<"bob">>},
             Members : {<<>>, <<"carol">>}] :
        (d.Reviewers = <<>>) = (d.Members # <<>>) }

\* ReadDir: up to MaxTeams files, no two of the same team, the parents
\* forming a hierarchy (no team is its own ancestor)
FileLists ==
    LET nameLists == { ns \in UNION { [1..n -> TeamNames] : n \in 1..MaxTeams } :
                         \A i, j \in DOMAIN ns : i # j => ns[i] # ns[j] }
        file(name, d) == [Name |-> name, Parent |-> d.Parent,
                          Maintainers |-> d.Maintainers,
                          Reviewers |-> d.Reviewers, Members |-> d.Members]
        hierarchy(fs) ==
            \A S \in SUBSET DOMAIN fs :
                S # {} => \E i \in S : \A j \in S : fs[i].Parent # fs[j].Name
    IN  UNION { { fs \in { [i \in DOMAIN ns |-> file(ns[i], ds[i])] :
                              ds \in [DOMAIN ns -> Definitions] } :
                    hierarchy(fs) } :
                ns \in nameLists }

\* ReadDir without the promise of a hierarchy: the files of the teams ns with
\* the definitions ds, any parents (a team may name itself, two teams may
\* name each other)
AnyFiles(ns, ds) ==
    [i \in DOMAIN ns |-> [Name |-> ns[i], Parent |-> ds[i].Parent,
                          Maintainers |-> ds[i].Maintainers,
                          Reviewers |-> ds[i].Reviewers,
                          Members |-> ds[i].Members]]

\* the organisation before the run: no teams; the teams an earlier run left
\* under the names of README.md; teams under the names without type prefix
PriorGhTeams ==
    LET legacy == {<<"sig", "net">>, <<"sig", "app">>,
                   <<"maintainers", "net">>, <<"maintainers", "app">>}
        plain == {<<"net">>, <<"app">>, <<"lib">>}
    IN  { NoGhTeams,
          [n \in legacy |->
              [parent |-> IF n[1] = "sig" THEN <<>> ELSE <<"sig">> \o Tail(n),
               members |-> {"dave"}]],
          [n \in plain |-> [parent |-> <<>>, members |-> {"alice", "dave"}]] }

\* NewTeamFromYAML: a first part that is a team type becomes Type and is
\* taken off Name
NewTeamFromYAML(d) ==
    LET typed == Len(d.Name) >= 2 /\ d.Name[1] \in Range(TeamTypes)
    IN  [Name |-> IF typed THEN Tail(d.Name) ELSE d.Name,
         Type |-> IF typed THEN d.Name[1] ELSE "",
         Parent |-> d.Parent,
         ParentTeam |-> 0,
         Maintainers |-> d.Maintainers,
         Reviewers |-> d.Reviewers,
         Members |-> d.Members,
         hasSynced |-> FALSE,
         shortName |-> <<>>]

\* FindTeamByName: the index of the first team whose Name, bare or prefixed
\* with a team type, is a; 0 for nil
FindTeamByName(a, ts) ==
    LET hits == { b \in DOMAIN ts :
                    \/ ts[b].Name = a
                    \/ \E t \in Range(TeamTypes) : <<t>> \o ts[b].Name = a }
    IN  IF hits = {} THEN 0 ELSE CHOOSE b \in hits : \A c \in hits : b <= c

\* NewListOfTeamsFromPath: load every file, then the loop that matches
\* parents, which leaves at its `break` after the first parent it has found
NewListOfTeamsFromPath(fs) ==
    LET ts == [i \in DOMAIN fs |-> NewTeamFromYAML(fs[i])]
        found == { i \in DOMAIN ts :
                     /\ ts[i].Parent # <<>>
                     /\ FindTeamByName(ts[i].Parent, ts) # 0 }
    IN  IF found = {} THEN ts
        ELSE LET i == CHOOSE k \in found : \A c \in found : k <= c
             IN  [ts EXCEPT ![i].ParentTeam = FindTeamByName(ts[i].Parent, ts)]

\* a Team.Sync call on teams[i] that has just been entered
Frame(i) == [t |-> i, at |-> "enter", parentGithubTeam |-> <<>>]

\* `if t.hasSynced { return nil }` with the test taken out
alreadySyncedNever(t) == FALSE

\* `if t.hasSynced { return nil }`
alreadySynced(t) == t.hasSynced

\* the role itself as the first part of the name
subTeamNameOfRole(role, shortName) == <<role>> \o shortName

\* fmt.Sprintf("%ss-%s", string(user.Maintainer), t.shortName) and the same
\* for user.Reviewer
subTeamName(role, shortName) ==
    <<CASE role = "maintainer" -> "maintainers"
        [] role = "reviewer" -> "reviewers">> \o shortName

\* the team a step of Team.Sync works on
stageTeam(t, at) ==
    CASE at \in {"upsert", "members"} -> t.Name
      [] at \in {"mUpsert", "mMembers"} -> subTeamName("maintainer", t.shortName)
      [] at \in {"rUpsert", "rMembers"} -> subTeamName("reviewer", t.shortName)

\* the usernames a SyncTeamMembers step passes
stageMembers(t, at) ==
    CASE at = "members" -> t.Maintainers \o t.Reviewers \o t.Members
      [] at = "mMembers" -> t.Maintainers
      [] at = "rMembers" -> t.Reviewers

\* the steps with the reviewers sub-team before the maintainers sub-team
nextAtReviewersFirst(t, at) ==
    CASE at = "upsert" -> "members"
      [] at = "members" -> IF Len(t.Reviewers) > 0 THEN "rUpsert"
                           ELSE IF Len(t.Maintainers) > 0 THEN "mUpsert"
                           ELSE "finish"
      [] at = "rUpsert" -> "rMembers"
      [] at = "rMembers" -> IF Len(t.Maintainers) > 0 THEN "mUpsert" ELSE "finish"
      [] at = "mUpsert" -> "mMembers"
      [] at = "mMembers" -> "finish"

\* the step of Team.Sync that follows a step that returned no error
nextAt(t, at) ==
    CASE at = "upsert" -> "members"
      [] at = "members" -> IF Len(t.Maintainers) > 0 THEN "mUpsert"
                           ELSE IF Len(t.Reviewers) > 0 THEN "rUpsert"
                           ELSE "finish"
      [] at = "mUpsert" -> "mMembers"
      [] at = "mMembers" -> IF Len(t.Reviewers) > 0 THEN "rUpsert" ELSE "finish"
      [] at = "rUpsert" -> "rMembers"
      [] at = "rMembers" -> "finish"

\* utils.Difference
Difference(a, b) == SelectSeq(a, LAMBDA x : x \notin Range(b))

\* the removal calls, then the addition calls, for one listing of the team
memberCalls(team, allCurrentUsernames, members) ==
    LET rm == Difference(allCurrentUsernames, members)
        ad == Difference(members, allCurrentUsernames)
    IN  [i \in 1..Len(rm) |-> [op |-> "remove", team |-> team, user |-> rm[i], parent |-> <<>>]]
        \o [i \in 1..Len(ad) |-> [op |-> "add", team |-> team, user |-> ad[i], parent |-> <<>>]]

\* the calls that still go out when call k + 1 has failed: all the others
issuedCallsSkipFailed(cs, k) == SubSeq(cs, 1, k) \o SubSeq(cs, k + 2, Len(cs))

\* the calls that go out when call k + 1 fails (all of them for k = Len(cs)):
\* the first k, the return follows the failure at once
issuedCalls(cs, k) == SubSeq(cs, 1, k)

\* the members of a team after calls
membersAfter(current, cs) ==
    (current \ { cs[i].user : i \in { j \in DOMAIN cs : cs[j].op = "remove" } })
        \cup { cs[i].user : i \in { j \in DOMAIN cs : cs[j].op = "add" } }

\* SyncTeamMembers: what one call can do to GitHub and return.  The listing
\* may fail; it names the members in any order; any removal or addition may
\* fail.
SyncTeamMembersOutcomes(gh, team, members) ==
    LET current == gh[team].members
        n == Cardinality(current)
        listings == { l \in [1..n -> current] :
                        \A i, j \in 1..n : i # j => l[i] # l[j] }
        listed == [op |-> "list", team |-> team, user |-> "", parent |-> <<>>]
        outcome(l, k) ==
            LET cs == memberCalls(team, l, members)
                done == issuedCalls(cs, k)
            IN  [gh |-> [gh EXCEPT ![team].members = membersAfter(current, done)],
                 calls |-> <<listed>> \o done,
                 err |-> IF k = Len(cs) THEN NoSyncErr
                         ELSE [kind |-> IF cs[k + 1].op = "remove"
                                        THEN "could not remove user"
                                        ELSE "could not add user",
                               team |-> team, user |-> cs[k + 1].user]]
    IN  { [gh |-> gh, calls |-> <<>>,
           err |-> [kind |-> "could not list members", team |-> team, user |-> ""]] }
        \cup UNION { { outcome(l, k) : k \in 0..Len(memberCalls(team, l, members)) } :
                       l \in listings }

InitSync ==
    /\ pc = "load"
    /\ mopts = InitialOptions
    /\ nOpts = 0
    /\ pull = NoPull
    /\ nC = 0
    /\ nR = 0
    /\ cur = NoItem
    /\ prApprovals = 0
    /\ prReviews = 0
    /\ res = EmptyMap
    /\ result = NoResult
    /\ retAt = "none"
    /\ qualA = 0
    /\ qualR = 0
    /\ userTeamCache = NilMap
    /\ maintainerWorkload = EmptyLoad
    /\ reviewerWorkload = EmptyLoad
    /\ popped = NoPop
    /\ AssignIdle
    /\ files \in FileLists
    /\ teams = <<>>
    /\ ghTeams \in PriorGhTeams
    /\ calls = <<>>
    /\ idx = 0
    /\ stack = <<>>
    /\ syncErr = NoSyncErr
    /\ CmdIdle

\* Sync.Pre
SyncPre ==
    /\ pc = "load"
    /\ teams' = NewListOfTeamsFromPath(files)
    /\ pc' = "run"
    /\ UNCHANGED <<evalVars, cmdVars, popVars, assignVars, files, ghTeams, calls, idx, stack,
                   syncErr>>

\* Sync.Run: the next `t.Sync(ctx)` of the loop, or `return nil` after it
SyncRun ==
    /\ pc = "run"
    /\ stack = <<>>
    /\ IF idx < Len(teams)
       THEN /\ stack' = <<Frame(idx + 1)>>
            /\ pc' = pc
       ELSE /\ pc' = "done"
            /\ stack' = stack
    /\ UNCHANGED <<evalVars, cmdVars, popVars, assignVars, files, teams, ghTeams, calls, idx,
                   syncErr>>

\* the Team.Sync call that was just entered goes on to `t.ParentTeam.Sync(ctx)`
\* and the stack has no room for it
outOfStack ==
    /\ stack # <<>>
    /\ Head(stack).at = "enter"
    /\ LET t == teams[Head(stack).t]
       IN  ~alreadySynced(t) /\ t.Parent # <<>> /\ t.ParentTeam # 0
    /\ Len(stack) >= MaxDepth

\* Team.Sync up to its first call: the hasSynced test, shortName and Type,
\* and the call of ParentTeam.Sync.  A nil return hands over to the caller,
\* which for the loop of Sync.Run is the next team.
TeamSync ==
    /\ pc = "run"
    /\ stack # <<>>
    /\ Head(stack).at = "enter"
    /\ ~outOfStack
    /\ LET top == Head(stack)
           t == teams[top.t]
           prefixed == t.Type = "" /\ t.Name # <<>> /\ t.Name[1] \in Range(TeamTypes)
           entered == [t EXCEPT
                         !.shortName = IF prefixed /\ Len(t.Name) >= 2
                                       THEN Tail(t.Name) ELSE t.Name,
                         !.Type = IF t.Type # "" THEN t.Type
                                  ELSE IF prefixed THEN t.Name[1] ELSE "misc"]
           waiting == [top EXCEPT !.at = IF t.Parent # <<>> THEN "findParent"
                                         ELSE "upsert"]
       IN  IF alreadySynced(t)
           THEN /\ stack' = Tail(stack)
                /\ idx' = IF Len(stack) = 1 THEN idx + 1 ELSE idx
                /\ UNCHANGED teams
           ELSE /\ teams' = [teams EXCEPT ![top.t] = entered]
                /\ stack' = (IF t.Parent # <<>> /\ t.ParentTeam # 0
                             THEN <<Frame(t.ParentTeam)>> ELSE <<>>)
                            \o <<waiting>> \o Tail(stack)
                /\ UNCHANGED idx
    /\ UNCHANGED <<pc, evalVars, cmdVars, popVars, assignVars, files, ghTeams, calls, syncErr>>

\* FindTeam for t.Parent.  An error of any Team.Sync goes up through every
\* caller to Sync.Run, where log.Fatalf ends the program.
FindTeam ==
    /\ pc = "run"
    /\ stack # <<>>
    /\ Head(stack).at = "findParent"
    /\ LET top == Head(stack)
           t == teams[top.t]
       IN  \E listFails \in BOOLEAN :
              IF listFails \/ t.Parent \notin DOMAIN ghTeams
              THEN /\ syncErr' = [kind |-> "could not find team", team |-> t.Parent,
                                  user |-> ""]
                   /\ stack' = <<>>
                   /\ pc' = "exit"
              ELSE /\ stack' = <<[top EXCEPT !.at = "upsert",
                                             !.parentGithubTeam = t.Parent]>>
                                  \o Tail(stack)
                   /\ UNCHANGED <<pc, syncErr>>
    /\ UNCHANGED <<evalVars, cmdVars, popVars, assignVars, files, teams, ghTeams, calls, idx>>

\* CreateOrUpdateTeam for the team or for one of its two sub-teams: the team
\* is created if FindTeam does not find it and edited otherwise; either way
\* its parent becomes parentTeamID (none for -1)
CreateOrUpdateTeam ==
    /\ pc = "run"
    /\ stack # <<>>
    /\ Head(stack).at \in {"upsert", "mUpsert", "rUpsert"}
    /\ LET top == Head(stack)
           t == teams[top.t]
           name == stageTeam(t, top.at)
           parentTeamID == IF top.at = "upsert" THEN top.parentGithubTeam ELSE t.Name
       IN  \E fails \in BOOLEAN :
              IF fails
              THEN /\ syncErr' = [kind |-> "could not create or update team",
                                  team |-> name, user |-> ""]
                   /\ stack' = <<>>
                   /\ pc' = "exit"
                   /\ UNCHANGED <<ghTeams, calls>>
              ELSE /\ ghTeams' = [n \in DOMAIN ghTeams \cup {name} |->
                                    IF n # name THEN ghTeams[n]
                                    ELSE [parent |-> parentTeamID,
                                          members |-> IF name \in DOMAIN ghTeams
                                                      THEN ghTeams[name].members
                                                      ELSE {}]]
                   /\ calls' = Append(calls, [op |-> "upsert", team |-> name,
                                              user |-> "", parent |-> parentTeamID])
                   /\ stack' = <<[top EXCEPT !.at = nextAt(t, top.at)]>> \o Tail(stack)
                   /\ UNCHANGED <<pc, syncErr>>
    /\ UNCHANGED <<evalVars, cmdVars, popVars, assignVars, files, teams, idx>>

\* SyncTeamMembers for the team or for one of its two sub-teams
SyncTeamMembers ==
    /\ pc = "run"
    /\ stack # <<>>
    /\ Head(stack).at \in {"members", "mMembers", "rMembers"}
    /\ LET top == Head(stack)
           t == teams[top.t]
       IN  \E out \in SyncTeamMembersOutcomes(ghTeams, stageTeam(t, top.at),
                                              stageMembers(t, top.at)) :
              /\ ghTeams' = out.gh
              /\ calls' = calls \o out.calls
              /\ IF out.err = NoSyncErr
                 THEN /\ stack' = <<[top EXCEPT !.at = nextAt(t, top.at)]>>
                                     \o Tail(stack)
                      /\ UNCHANGED <<pc, syncErr>>
                 ELSE /\ syncErr' = out.err
                      /\ stack' = <<>>
                      /\ pc' = "exit"
    /\ UNCHANGED <<evalVars, cmdVars, popVars, assignVars, files, teams, idx>>

\* t.hasSynced = true; return nil
TeamSynced ==
    /\ pc = "run"
    /\ stack # <<>>
    /\ Head(stack).at = "finish"
    /\ teams' = [teams EXCEPT ![Head(stack).t].hasSynced = TRUE]
    /\ stack' = Tail(stack)
    /\ idx' = IF Len(stack) = 1 THEN idx + 1 ELSE idx
    /\ UNCHANGED <<pc, evalVars, cmdVars, popVars, assignVars, files, ghTeams, calls, syncErr>>

NextSync ==
    \/ SyncPre
    \/ SyncRun
    \/ TeamSync
    \/ FindTeam
    \/ CreateOrUpdateTeam
    \/ SyncTeamMembers
    \/ TeamSynced

SpecSync == InitSync /\ [][NextSync]_vars

\* `team sync` over a TeamsDir whose parents need not form a hierarchy
InitSyncAny ==
    /\ pc = "load"
    /\ EvalIdle
    /\ AssignIdle
    /\ \E n \in 1..MaxTeams :
          \E ns \in [1..n -> TeamNames] :
             /\ \A i, j \in 1..n : i # j => ns[i] # ns[j]
             /\ \E ds \in [1..n -> Definitions] : files = AnyFiles(ns, ds)
    /\ teams = <<>>
    /\ ghTeams \in PriorGhTeams
    /\ calls = <<>>
    /\ idx = 0
    /\ stack = <<>>
    /\ syncErr = NoSyncErr
    /\ CmdIdle

\* `t.ParentTeam.Sync(ctx)` with no stack left: the runtime ends the program
\* (fatal error: stack overflow)
StackOverflow ==
    /\ pc = "run"
    /\ outOfStack
    /\ pc' = "overflow"
    /\ UNCHANGED <<evalVars, cmdVars, popVars, assignVars, syncVars>>

NextSyncAny ==
    \/ NextSync
    \/ StackOverflow

SpecSyncAny == InitSyncAny /\ [][NextSyncAny]_vars

-----------------------------------------------------------------------------
(* Repository: NameEquals, Fullname and the loader of ReposDir              *)
(*                                                                          *)
(* A repository name is the sequence of its parts between dashes, as a team *)
(* name is: "lib-lwip" is <<"lib", "lwip">>.                                *)

RepoTypes == <<"app", "lib", "plat", "core", "misc">>

\* NameEquals with the prefix compared against r.Type only
NameEqualsOwnType(r, name) ==
    \/ name = r.Name
    \/ <<r.Type>> \o r.Name = name

\* Repository.NameEquals: name is r.Name, or r.Name behind any of RepoTypes
NameEquals(r, name) ==
    \/ name = r.Name
    \/ \E t \in Range(RepoTypes) : <<t>> \o r.Name = name

\* Repository.Fullname: the repository as the call leaves it.  A first part of
\* Name that is a repository type becomes Type and is taken off Name; the
\* result is kept in fullname and returned from there by later calls.
Fullname(r) ==
    IF r.fullname # <<>> THEN r
    ELSE LET typed == Len(r.Name) >= 2 /\ r.Name[1] \in Range(RepoTypes)
             name == IF typed THEN Tail(r.Name) ELSE r.Name
             type == IF typed THEN r.Name[1] ELSE r.Type
         IN  [Type |-> type, Name |-> name,
              fullname |-> IF type \in {"misc", "core"} THEN name
                           ELSE <<type>> \o name]

\* repo.NewListOfReposFromPath: the repositories, or the error of the first
\* file without a name
NewListOfReposFromPath(fs) ==
    IF \E i \in DOMAIN fs : fs[i].Name = <<>>
    THEN [repos |-> <<>>, err |-> "could not parse repos file"]
    ELSE [repos |-> [i \in DOMAIN fs |-> Fullname(fs[i])], err |-> ""]

-----------------------------------------------------------------------------
(* `pr sync labels`: Labels.Run, NewListOfLabelsFromPath, Label.AppliesTo   *)
(*                                                                          *)
(* A path is the sequence of its parts between slashes, the empty string is *)
(* <<>>.  A pattern is a sequence of parts too; the part "*" stands for any *)
(* one part and "**" for any number of parts.                               *)

\* label definitions in LabelsDir
MaxLabels == 2

SourcePaths == {<<"lib", "net", "tcp.c">>, <<"doc", "README.md">>, <<"README.md">>}

\* apply_on_pr_match_paths: none, one pattern, or two of which the second is
\* the one that matches a README.md
PathLists == {<<>>, <<<<"lib", "**">>>>, <<<<"lib", "**">>, <<"*", "README.md">>>>}

\* what a labels file may hold for one label; "" is a label without a name
LabelDefinitions ==
    [Name : {"", "area/lib", "kind/doc"},
     ApplyOnPrMatchRepos : {<<>>, <<"app-nginx", "unikraft">>},
     ApplyOnPrMatchPaths : PathLists]

LabelFileLists == UNION { [1..n -> LabelDefinitions] : n \in 0..MaxLabels }

\* the diff of the pull request: nothing, a new file, a renamed file, a
\* deleted file, two files
Diffs ==
    LET new == [OrigName |-> <<>>, NewName |-> <<"lib", "net", "tcp.c">>]
        moved == [OrigName |-> <<"doc", "README.md">>, NewName |-> <<"README.md">>]
        gone == [OrigName |-> <<"doc", "README.md">>, NewName |-> <<>>]
    IN  {<<>>, <<new>>, <<moved>>, <<gone>>, <<moved, new>>}

\* doublestar.Match
RECURSIVE Match(_, _)
Match(p, file) ==
    IF p = <<>> THEN file = <<>>
    ELSE IF Head(p) = "**"
    THEN Match(Tail(p), file) \/ (file # <<>> /\ Match(p, Tail(file)))
    ELSE IF file = <<>> THEN FALSE
    ELSE /\ Head(p) \in {"*", Head(file)}
         /\ Match(Tail(p), Tail(file))

\* AppliesTo without its test of ApplyOnPrMatchRepos
AppliesToAnyRepo(l, r, file) ==
    /\ Len(l.ApplyOnPrMatchPaths) > 0
    /\ \E i \in DOMAIN l.ApplyOnPrMatchPaths : Match(l.ApplyOnPrMatchPaths[i], file)

\* Label.AppliesTo: the loop over ApplyOnPrMatchRepos that jumps to
\* checkMatchPaths on a hit and returns false after it, then the loop over
\* ApplyOnPrMatchPaths
AppliesTo(l, r, file) ==
    LET jump == \E i \in DOMAIN l.ApplyOnPrMatchRepos : l.ApplyOnPrMatchRepos[i] = r
    IN  IF Len(l.ApplyOnPrMatchRepos) > 0 /\ ~jump THEN FALSE
        ELSE /\ Len(l.ApplyOnPrMatchPaths) > 0
             /\ \E i \in DOMAIN l.ApplyOnPrMatchPaths :
                   Match(l.ApplyOnPrMatchPaths[i], file)

\* NewListOfLabelsFromPath: the labels, or the error of the first label
\* without a name
NewListOfLabelsFromPath(fs) ==
    IF \E i \in DOMAIN fs : fs[i].Name = ""
    THEN [labels |-> <<>>, err |-> "could not parse labels file"]
    ELSE [labels |-> fs, err |-> ""]

\* the body of `for _, label := range labels` for one file f and one label l;
\* acc is [toAdd, calls]: labelsToAdd and the AppliesTo calls made so far
matchLabel(acc, r, f, l) ==
    IF l.Name \in Range(acc.toAdd) THEN acc
    ELSE LET call(file) == [label |-> l, repo |-> r, file |-> file,
                            ok |-> AppliesTo(l, r, file)]
             first == Len(f.OrigName) > 0
             hit == first /\ AppliesTo(l, r, f.OrigName)
             second == ~hit /\ Len(f.NewName) > 0
         IN  [toAdd |-> IF hit \/ (second /\ AppliesTo(l, r, f.NewName))
                        THEN Append(acc.toAdd, l.Name) ELSE acc.toAdd,
              calls |-> acc.calls
                          \cup (IF first THEN {call(f.OrigName)} ELSE {})
                          \cup (IF second THEN {call(f.NewName)} ELSE {})]

\* `for _, f := range diff.Files { for _, label := range labels { ... } }`
\* from file i and label j on
RECURSIVE matchLabels(_, _, _, _, _, _)
matchLabels(acc, r, fs, ls, i, j) ==
    IF i > Len(fs) THEN acc
    ELSE IF j > Len(ls) THEN matchLabels(acc, r, fs, ls, i + 1, 1)
    ELSE matchLabels(matchLabel(acc, r, fs[i], ls[j]), r, fs, ls, i, j + 1)

\* Run returns err
Returns(err) ==
    /\ runErr' = err
    /\ pc' = "returned"

InitLabels ==
    /\ pc = "lGet"
    /\ mopts = InitialOptions
    /\ nOpts = 0
    /\ pull = NoPull
    /\ nC = 0
    /\ nR = 0
    /\ cur = NoItem
    /\ prApprovals = 0
    /\ prReviews = 0
    /\ res = EmptyMap
    /\ result = NoResult
    /\ retAt = "none"
    /\ qualA = 0
    /\ qualR = 0
    /\ userTeamCache = NilMap
    /\ maintainerWorkload = EmptyLoad
    /\ reviewerWorkload = EmptyLoad
    /\ popped = NoPop
    /\ NumMaintainers = 1
    /\ NumReviewers = 1
    /\ DryRun \in BOOLEAN
    /\ possibleMaintainers = <<>>
    /\ possibleReviewers = <<>>
    /\ maintainers = <<>>
    /\ reviewers = <<>>
    /\ ghPr = NoGhPr
    /\ assignErr = "none"
    /\ SyncIdle
    /\ repoFiles = <<>>
    /\ repos = <<>>
    /\ labelFiles \in LabelFileLists
    /\ labels = <<>>
    /\ diff \in Diffs
    /\ ghRepo \in {"unikraft", "lib-lwip"}
    /\ labelsToAdd = <<>>
    /\ applied = {}
    /\ runErr = "none"
    /\ issued = <<>>
    /\ repo = NoRepo
    /\ asked = NotAsked
    /\ checks = <<>>
    /\ NoCheckMergable = FALSE
    /\ Push = FALSE
    /\ ghAuth = "user"

\* Labels.Run up to the test of the state: GetPullRequest fails, or returns
\* a pull request that is closed or one that is not
LabelsGetPullRequest ==
    /\ pc = "lGet"
    /\ issued' = Append(issued, Read("GetPullRequest"))
    /\ \E got \in {"error", "closed", "open"} :
          CASE got = "error" -> Returns("could not get pull request")
            [] got = "closed" -> Returns("pull request is closed")
            [] got = "open" -> pc' = "lClone" /\ UNCHANGED runErr
    /\ UNCHANGED <<evalVars, popVars, assignVars, syncVars, repoVars, runVars,
                   repoFiles, repos, labelFiles, labels, diff, ghRepo, labelsToAdd,
                   applied>>

\* the temporary directory and git.PlainClone unless the copy is there
CloneRepository ==
    /\ pc = "lClone"
    /\ \E have \in BOOLEAN, fails \in BOOLEAN :
          IF have
          THEN /\ pc' = "lLoad"
               /\ UNCHANGED <<runErr, issued>>
          ELSE /\ issued' = Append(issued, Read("PlainClone"))
               /\ IF fails THEN Returns("could not clone repository")
                  ELSE pc' = "lLoad" /\ UNCHANGED runErr
    /\ UNCHANGED <<evalVars, popVars, assignVars, syncVars, repoVars, runVars,
                   repoFiles, repos, labelFiles, labels, diff, ghRepo, labelsToAdd,
                   applied>>

\* label.NewListOfLabelsFromPath on the LabelsDir of the local copy
LoadLabels ==
    /\ pc = "lLoad"
    /\ LET l == NewListOfLabelsFromPath(labelFiles)
       IN  IF l.err # ""
           THEN /\ Returns("could not populate repos")
                /\ UNCHANGED labels
           ELSE /\ labels' = l.labels
                /\ pc' = "lDiff"
                /\ UNCHANGED runErr
    /\ UNCHANGED <<evalVars, popVars, assignVars, syncVars, repoVars, runVars,
                   repoFiles, repos, labelFiles, diff, ghRepo, labelsToAdd, applied,
                   issued>>

\* the diff: utils.DownloadFile unless the file is there, ReadFile, Parse
DownloadDiff ==
    /\ pc = "lDiff"
    /\ \E have \in BOOLEAN, fails \in BOOLEAN :
          /\ issued' = IF have THEN issued ELSE Append(issued, Read("DownloadFile"))
          /\ IF fails THEN Returns("could not read the diff")
             ELSE pc' = "lMatch" /\ UNCHANGED runErr
    /\ UNCHANGED <<evalVars, popVars, assignVars, syncVars, repoVars, runVars,
                   repoFiles, repos, labelFiles, labels, diff, ghRepo, labelsToAdd,
                   applied>>

\* the two loops that fill labelsToAdd
MatchLabels ==
    /\ pc = "lMatch"
    /\ LET acc == matchLabels([toAdd |-> <<>>, calls |-> {}], ghRepo, diff, labels, 1, 1)
       IN  /\ labelsToAdd' = acc.toAdd
           /\ applied' = acc.calls
    /\ pc' = "lAdd"
    /\ UNCHANGED <<evalVars, popVars, assignVars, syncVars, repoVars, runVars,
                   repoFiles, repos, labelFiles, labels, diff, ghRepo, runErr, issued>>

\* AddLabelsToPr if there are labels to add, unless DryRun; return nil
AddLabelsToPr ==
    /\ pc = "lAdd"
    /\ IF Len(labelsToAdd) > 0 /\ goesOut(DryRun)
       THEN /\ issued' = Append(issued, Write("AddLabelsToPr"))
            /\ \E fails \in BOOLEAN :
                  Returns(IF fails THEN "could not add labels to repo" ELSE "nil")
       ELSE /\ Returns("nil")
            /\ UNCHANGED issued
    /\ UNCHANGED <<evalVars, popVars, assignVars, syncVars, repoVars, runVars,
                   repoFiles, repos, labelFiles, labels, diff, ghRepo, labelsToAdd,
                   applied>>

NextLabels ==
    \/ LabelsGetPullRequest
    \/ CloneRepository
    \/ LoadLabels
    \/ DownloadDiff
    \/ MatchLabels
    \/ AddLabelsToPr

SpecLabels == InitLabels /\ [][NextLabels]_vars

-----------------------------------------------------------------------------
(* `pr sync reviewers` from the start of Reviewers.Run, and `pr sync labels` *)

\* ReposDir: a repository with its type and one with the type in its name,
\* or the first of them and one without a name
RepoFileLists ==
    LET lwip == [Type |-> "lib", Name |-> <<"lwip">>, fullname |-> <<>>]
    IN  { <<lwip, [Type |-> "", Name |-> <<"app", "nginx">>, fullname |-> <<>>]>>,
          <<lwip, [Type |-> "lib", Name |-> <<>>, fullname |-> <<>>]>> }

\* TeamsDir: a team, a team without a name, a team with a reviewer who has
\* no GitHub username
TeamFileLists ==
    LET team == [Name |-> <<"sig", "net">>, Parent |-> <<>>,
                 Maintainers |-> <<"alice">>, Reviewers |-> <<"bob">>,
                 Members |-> <<>>]
    IN  { <<team>>, <<[team EXCEPT !.Name = <<>>]>>,
          <<[team EXCEPT !.Reviewers = <<"bob", "">>]>> }

\* team.NewTeamFromYAML: the error of its two checks, "" for none
NewTeamFromYAMLError(d) ==
    IF d.Name = <<>> THEN "team name not provided"
    ELSE IF "" \in Range(d.Maintainers \o d.Reviewers \o d.Members)
    THEN "user does not have github username"
    ELSE ""

InitReviewers ==
    /\ pc = "rRepos"
    /\ mopts = InitialOptions
    /\ nOpts = 0
    /\ pull = NoPull
    /\ nC = 0
    /\ nR = 0
    /\ cur = NoItem
    /\ prApprovals = 0
    /\ prReviews = 0
    /\ res = EmptyMap
    /\ result = NoResult
    /\ retAt = "none"
    /\ qualA = 0
    /\ qualR = 0
    /\ userTeamCache = NilMap
    /\ maintainerWorkload = EmptyLoad
    /\ reviewerWorkload = EmptyLoad
    /\ popped = NoPop
    /\ NumMaintainers \in 1..MaxNum
    /\ NumReviewers \in 1..MaxNum
    /\ DryRun \in BOOLEAN
    /\ possibleMaintainers = <<>>
    /\ possibleReviewers = <<>>
    /\ maintainers = <<>>
    /\ reviewers = <<>>
    /\ ghPr \in GhPrs
    /\ assignErr = "none"
    /\ files \in TeamFileLists
    /\ teams = <<>>
    /\ ghTeams = NoGhTeams
    /\ calls = <<>>
    /\ idx = 0
    /\ stack = <<>>
    /\ syncErr = NoSyncErr
    /\ repoFiles \in RepoFileLists
    /\ repos = <<>>
    /\ labelFiles = <<>>
    /\ labels = <<>>
    /\ diff = <<>>
    /\ ghRepo = "lib-lwip"
    /\ labelsToAdd = <<>>
    /\ applied = {}
    /\ runErr = "none"
    /\ issued = <<>>
    /\ repo = NoRepo
    /\ asked = NotAsked
    /\ checks = <<>>
    /\ NoCheckMergable = FALSE
    /\ Push = FALSE
    /\ ghAuth = "user"

\* repo.NewListOfReposFromPath
LoadRepos ==
    /\ pc = "rRepos"
    /\ LET r == NewListOfReposFromPath(repoFiles)
       IN  IF r.err # ""
           THEN /\ Returns("could not populate repos")
                /\ UNCHANGED repos
           ELSE /\ repos' = r.repos
                /\ pc' = "rGet"
                /\ UNCHANGED runErr
    /\ UNCHANGED <<evalVars, popVars, assignVars, syncVars, repoVars, runVars,
                   repoFiles, labelFiles, labels, diff, ghRepo, labelsToAdd, applied,
                   issued>>

\* GetPullRequest fails, or returns a pull request that is closed or one that
\* is not
ReviewersGetPullRequest ==
    /\ pc = "rGet"
    /\ issued' = Append(issued, Read("GetPullRequest"))
    /\ \E got \in {"error", "closed", "open"} :
          CASE got = "error" -> Returns("could not get pull request")
            [] got = "closed" -> Returns("pull request is closed")
            [] got = "open" -> pc' = "rTeams" /\ UNCHANGED runErr
    /\ UNCHANGED <<evalVars, popVars, assignVars, syncVars, repoVars, runVars,
                   repoFiles, repos, labelFiles, labels, diff, ghRepo, labelsToAdd,
                   applied>>

\* team.NewListOfTeamsFromPath
LoadTeams ==
    /\ pc = "rTeams"
    /\ IF \E i \in DOMAIN files : NewTeamFromYAMLError(files[i]) # ""
       THEN /\ Returns("could not parse teams file")
            /\ UNCHANGED teams
       ELSE /\ teams' = NewListOfTeamsFromPath(files)
            /\ pc' = "rLists"
            /\ UNCHANGED runErr
    /\ UNCHANGED <<evalVars, popVars, assignVars, cmdVars, files, ghTeams, calls, idx,
                   stack, syncErr>>

\* The rest of Run up to the call of
\* updatePrWithPossibleMaintainersAndReviewers: the workloads counted over
\* the open pull requests and the two candidate lists read off CODEOWNERS,
\* the teams and the diff.  Any of its calls may fail; what it computes is
\* any pair of workload maps and any pair of candidate lists.
ListCandidates ==
    /\ pc = "rLists"
    /\ issued' = issued \o <<Read("ListOpenPullRequests"), Read("PlainClone"),
                             Read("DownloadFile")>>
    /\ \E fails \in BOOLEAN :
          IF fails
          THEN /\ Returns("could not retrieve pull requests")
               /\ UNCHANGED <<maintainerWorkload, reviewerWorkload,
                              possibleMaintainers, possibleReviewers>>
          ELSE /\ maintainerWorkload' \in AssignLoads
               /\ reviewerWorkload' \in AssignLoads
               /\ possibleMaintainers' \in CandidateLists
               /\ possibleReviewers' \in CandidateLists
               /\ pc' = "assign"
               /\ UNCHANGED runErr
    /\ UNCHANGED <<evalVars, syncVars, repoVars, runVars, popped, NumMaintainers,
                   NumReviewers, DryRun, maintainers, reviewers, ghPr, assignErr,
                   repoFiles, repos, labelFiles, labels, diff, ghRepo, labelsToAdd,
                   applied>>

NextPrSync ==
    \/ LoadRepos
    \/ ReviewersGetPullRequest
    \/ LoadTeams
    \/ ListCandidates
    \/ NextAssign
    \/ NextLabels

SpecPrSync == (InitReviewers \/ InitLabels) /\ [][NextPrSync]_vars

-----------------------------------------------------------------------------
(* A Repository and the calls of its NameEquals and Fullname *)

\* a repository as the yaml of a repo or of a team gives it
Repositories ==
    [Type : {""} \cup Range(RepoTypes),
     Name : {<<"foo">>, <<"lib", "foo">>, <<"app", "foo">>},
     fullname : {<<>>}]

\* the names NameEquals is asked about
NameArgs == {<<"foo">>, <<"lib", "foo">>, <<"app", "foo">>, <<"bar">>}

InitRepo ==
    /\ pc = "repo"
    /\ EvalIdle
    /\ AssignIdle
    /\ SyncIdle
    /\ repoFiles = <<>>
    /\ repos = <<>>
    /\ labelFiles = <<>>
    /\ labels = <<>>
    /\ diff = <<>>
    /\ ghRepo = ""
    /\ labelsToAdd = <<>>
    /\ applied = {}
    /\ runErr = "none"
    /\ issued = <<>>
    /\ repo \in Repositories
    /\ asked = NotAsked
    /\ checks = <<>>
    /\ NoCheckMergable = FALSE
    /\ Push = FALSE
    /\ ghAuth = "user"

\* r.NameEquals(name)
CallNameEquals ==
    /\ pc = "repo"
    /\ \E name \in NameArgs :
          asked' = [called |-> TRUE, name |-> name, equal |-> NameEquals(repo, name)]
    /\ UNCHANGED <<pc, evalVars, popVars, assignVars, syncVars, loadVars, issued,
                   runVars, repo, checks>>

\* r.Fullname()
CallFullname ==
    /\ pc = "repo"
    /\ repo' = Fullname(repo)
    /\ UNCHANGED <<pc, evalVars, popVars, assignVars, syncVars, loadVars, issued,
                   runVars, asked, checks>>

NextRepo ==
    \/ CallNameEquals
    \/ CallFullname

SpecRepo == InitRepo /\ [][NextRepo]_vars

-----------------------------------------------------------------------------
(* GithubClient.UserMemberOfTeam, call after call in one run *)

\* UserMemberOfTeam calls in one run
MaxChecks == 3

InitMember ==
    /\ pc = "member"
    /\ EvalIdle
    /\ AssignIdle
    /\ SyncIdle
    /\ CmdIdle

\* one UserMemberOfTeam(username, team) call; its ListTeamMembers call, if it
\* makes one, fails or returns the members of the team
CheckMember ==
    /\ pc = "member"
    /\ Len(checks) < MaxChecks
    /\ \E username \in Users, team \in Teams, fails \in BOOLEAN :
          LET r == UserMemberOfTeam(userTeamCache, username, team,
                                    IF fails THEN {team} ELSE {})
              queried == ~CacheHas(userTeamCache, username)
          IN  /\ checks' = Append(checks, [username |-> username, team |-> team,
                                           queried |-> queried,
                                           failed |-> queried /\ fails,
                                           ok |-> r.ok, panic |-> r.panic])
              /\ userTeamCache' = r.cache
              /\ pc' = IF r.panic THEN "panic" ELSE pc
    /\ UNCHANGED <<mopts, nOpts, pull, nC, nR, cur, prApprovals, prReviews, res,
                   result, retAt, qualA, qualR, popVars, assignVars, syncVars,
                   loadVars, issued, runVars, repo, asked>>

NextMember == CheckMember

SpecMember == InitMember /\ [][NextMember]_vars

-----------------------------------------------------------------------------
(* `pr merge`: Merge.Run around PullRequest.SatisfiesMergeRequirements *)

\* the test of the result with nothing tested
mergeAllowedAlways(r) == TRUE

\* `if err != nil { return ... } else if !mergable { return ... }`: whether
\* Run goes on after the evaluator has returned r
mergeAllowed(r) == r.err = NoErr /\ r.ok

\* the deferred `git push -d patched tempBranch`, registered once the push of
\* the temporary branch has succeeded
deferred(log) ==
    IF \E i \in DOMAIN log : log[i].call = "git push tempBranch"
    THEN <<Write("git push -d tempBranch")>> ELSE <<>>

InitRun ==
    /\ pc = "mStart"
    /\ EvalIdle
    /\ NumMaintainers = 1
    /\ NumReviewers = 1
    /\ DryRun \in BOOLEAN
    /\ possibleMaintainers = <<>>
    /\ possibleReviewers = <<>>
    /\ maintainers = <<>>
    /\ reviewers = <<>>
    /\ ghPr = NoGhPr
    /\ assignErr = "none"
    /\ SyncIdle
    /\ repoFiles = <<>>
    /\ repos = <<>>
    /\ labelFiles = <<>>
    /\ labels = <<>>
    /\ diff = <<>>
    /\ ghRepo = ""
    /\ labelsToAdd = <<>>
    /\ applied = {}
    /\ runErr = "none"
    /\ issued = <<>>
    /\ repo = NoRepo
    /\ asked = NotAsked
    /\ checks = <<>>
    /\ NoCheckMergable \in BOOLEAN
    /\ Push \in BOOLEAN
    /\ ghAuth = "user"

\* Run up to the evaluator: ghpr.NewPullRequestFromID, then the call of
\* SatisfiesMergeRequirements unless NoCheckMergable
MergeStart ==
    /\ pc = "mStart"
    /\ issued' = Append(issued, Read("NewPullRequestFromID"))
    /\ \E fails \in BOOLEAN :
          IF fails THEN Returns("could not prepare pull request")
          ELSE /\ pc' = IF NoCheckMergable THEN "mPrepare" ELSE "opts"
               /\ UNCHANGED runErr
    /\ UNCHANGED <<evalVars, popVars, assignVars, syncVars, labelVars, repoVars,
                   runVars>>

\* SatisfiesMergeRequirements has returned: its locals are gone, Run keeps
\* the triple it returned and tests it
MergeChecked ==
    /\ pc = "done"
    /\ IF mergeAllowed(result)
       THEN pc' = "mPrepare" /\ UNCHANGED runErr
       ELSE Returns("pull request is not mergable")
    /\ mopts' = InitialOptions
    /\ nOpts' = 0
    /\ pull' = NoPull
    /\ nC' = 0
    /\ nR' = 0
    /\ cur' = NoItem
    /\ prApprovals' = 0
    /\ prReviews' = 0
    /\ res' = EmptyMap
    /\ retAt' = "none"
    /\ qualA' = 0
    /\ qualR' = 0
    /\ UNCHANGED <<result, userTeamCache, popVars, assignVars, syncVars, labelVars,
                   issued, repoVars, runVars>>

\* the trailers, the temporary directory, the clone (log.Fatalf if it fails),
\* git config, the checkout of the base branch and of the new temporary
\* branch, git remote add
PrepareRepository ==
    /\ pc = "mPrepare"
    /\ issued' = Append(issued, Read("PlainClone"))
    /\ \E out \in {"ok", "error", "fatal"} :
          CASE out = "ok" -> pc' = "mPushTemp" /\ UNCHANGED runErr
            [] out = "error" -> Returns("could not checkout base")
            [] out = "fatal" -> pc' = "exit" /\ UNCHANGED runErr
    /\ UNCHANGED <<evalVars, popVars, assignVars, syncVars, labelVars, repoVars,
                   runVars>>

\* unless DryRun: git push of the temporary branch, and the deferred deletion
\* registered after it
PushTempBranch ==
    /\ pc = "mPushTemp"
    /\ IF goesOut(DryRun)
       THEN /\ issued' = Append(issued, Write("git push tempBranch"))
            /\ \E fails \in BOOLEAN :
                  IF fails THEN Returns("could not create remote branch")
                  ELSE pc' = "mLogin" /\ UNCHANGED runErr
       ELSE /\ pc' = "mApply"
            /\ UNCHANGED <<runErr, issued>>
    /\ UNCHANGED <<evalVars, popVars, assignVars, syncVars, labelVars, repoVars,
                   runVars>>

\* `gh auth token` to keep the user's token, then `gh auth login` with the
\* token of the tool
LoginWithToken ==
    /\ pc = "mLogin"
    /\ \E out \in {"no backup", "no login", "ok"} :
          CASE out = "no backup" ->
                   /\ issued' = issued \o <<Read("gh auth token")>> \o deferred(issued)
                   /\ Returns("could not backup token")
                   /\ UNCHANGED ghAuth
            [] out = "no login" ->
                   /\ issued' = issued \o <<Read("gh auth token"), Write("gh auth login")>>
                                    \o deferred(issued)
                   /\ Returns("could not update token")
                   /\ UNCHANGED ghAuth
            [] out = "ok" ->
                   /\ issued' = issued \o <<Read("gh auth token"), Write("gh auth login")>>
                   /\ ghAuth' = "tool"
                   /\ pc' = "mEdit"
                   /\ UNCHANGED runErr
    /\ UNCHANGED <<evalVars, popVars, assignVars, syncVars, labelVars, repoVars,
                   NoCheckMergable, Push>>

\* `gh pr edit --base tempBranch`
EditBase ==
    /\ pc = "mEdit"
    /\ \E fails \in BOOLEAN :
          IF fails
          THEN /\ issued' = Append(issued, Write("gh pr edit")) \o deferred(issued)
               /\ Returns("could not change base branch")
          ELSE /\ issued' = Append(issued, Write("gh pr edit"))
               /\ pc' = "mMerge"
               /\ UNCHANGED runErr
    /\ UNCHANGED <<evalVars, popVars, assignVars, syncVars, labelVars, repoVars,
                   runVars>>

\* `gh pr merge --rebase`
MergePullRequest ==
    /\ pc = "mMerge"
    /\ \E fails \in BOOLEAN :
          IF fails
          THEN /\ issued' = Append(issued, Write("gh pr merge")) \o deferred(issued)
               /\ Returns("could not merge with rebase")
          ELSE /\ issued' = Append(issued, Write("gh pr merge"))
               /\ pc' = "mRestore"
               /\ UNCHANGED runErr
    /\ UNCHANGED <<evalVars, popVars, assignVars, syncVars, labelVars, repoVars,
                   runVars>>

\* `gh auth login` with the token kept before
RestoreToken ==
    /\ pc = "mRestore"
    /\ \E fails \in BOOLEAN :
          IF fails
          THEN /\ issued' = Append(issued, Write("gh auth login")) \o deferred(issued)
               /\ Returns("could not update token")
               /\ UNCHANGED ghAuth
          ELSE /\ issued' = Append(issued, Write("gh auth login"))
               /\ ghAuth' = "user"
               /\ pc' = "mApply"
               /\ UNCHANGED runErr
    /\ UNCHANGED <<evalVars, popVars, assignVars, syncVars, labelVars, repoVars,
                   NoCheckMergable, Push>>

\* the checkout of the base branch, then `git am --3way` of the patches
ApplyPatches ==
    /\ pc = "mApply"
    /\ \E out \in {"no checkout", "no am", "ok"} :
          CASE out = "no checkout" ->
                   /\ issued' = issued \o deferred(issued)
                   /\ Returns("could not checkout base")
            [] out = "no am" ->
                   /\ issued' = Append(issued, Write("git am")) \o deferred(issued)
                   /\ Returns("could not apply patch")
            [] out = "ok" ->
                   /\ issued' = Append(issued, Write("git am"))
                   /\ pc' = "mPushBase"
                   /\ UNCHANGED runErr
    /\ UNCHANGED <<evalVars, popVars, assignVars, syncVars, labelVars, repoVars,
                   runVars>>

\* if Push, unless DryRun: git push of the base branch; return nil
PushBase ==
    /\ pc = "mPushBase"
    /\ IF Push /\ goesOut(DryRun)
       THEN /\ issued' = Append(issued, Write("git push BaseBranch")) \o deferred(issued)
            /\ \E fails \in BOOLEAN :
                  Returns(IF fails THEN "could not apply patch" ELSE "nil")
       ELSE /\ issued' = issued \o deferred(issued)
            /\ Returns("nil")
    /\ UNCHANGED <<evalVars, popVars, assignVars, syncVars, labelVars, repoVars,
                   runVars>>

NextRun ==
    \/ MergeStart
    \/ NextMerge
    \/ MergeChecked
    \/ PrepareRepository
    \/ PushTempBranch
    \/ LoginWithToken
    \/ EditBase
    \/ MergePullRequest
    \/ RestoreToken
    \/ ApplyPatches
    \/ PushBase

SpecRun == InitRun /\ [][NextRun]_vars

-----------------------------------------------------------------------------
(* Claims about the mergeability evaluator (SpecMerge) *)

CountsMet == prApprovals >= mopts.minApprovals /\ prReviews >= mopts.minReviews

GatesPassed == pull.fetched /\ gates(mopts, pull) = "pass"

\* C1: for a pull request that passed the four gates, the call returns ok = true
\* only from the count check, and there ok holds exactly when both counters
\* reach their minimum; the error of a failed count check carries both counters
\* with their minimums.
C1_OkIffCountsMet ==
    (pc = "done" /\ GatesPassed) =>
        /\ result.ok => (retAt = "check" /\ CountsMet)
        /\ retAt = "check" =>
              /\ result.ok = CountsMet
              /\ result.ok => (result.err = NoErr /\ ~result.resNil /\ result.res = res)
              /\ ~result.ok =>
                    /\ result.resNil
                    /\ result.err = [kind |-> "counts",
                                     approvals |-> prApprovals,
                                     minApprovals |-> mopts.minApprovals,
                                     reviews |-> prReviews,
                                     minReviews |-> mopts.minReviews]

\* a count check that fails although one of the two counters reached its minimum
C1_Witness ==
    /\ pc = "done"
    /\ retAt = "check"
    /\ ~result.ok
    /\ prApprovals >= mopts.minApprovals
    /\ prApprovals > 0
    /\ prReviews < mopts.minReviews

\* C2: the call rejects a pull request for being a draft only when the
\* require-non-draft option is set.
C2_DraftRejectedOnlyWithNoDraft ==
    (pc = "done" /\ result.err.kind = "draft") => mopts.noDraft

\* C3: every scanned item that qualifies as an approval adds exactly one to the
\* approval counter, so the counter equals the number of qualifying items.
C3_ApprovalsEqualQualifyingItems ==
    pc # "panic" => prApprovals = qualA

\* C4: while the issue comments are scanned, every comment that matches a
\* reviewer pattern and whose author qualifies as a reviewer is counted as a
\* review, whatever the approver branch did with it.
C4_CommentReviewsIndependent ==
    pc = "comments" => prReviews >= qualR

\* the users the claim lets count as reviewers: members of a configured reviewer
\* team and, unless disabled, the requested reviewers of the pull request
ClaimedReviewer(o, pr, u) ==
    \/ \E i \in 1..Len(o.reviewerTeams) : u \in TeamMembers[o.reviewerTeams[i]]
    \/ ~o.noRespectReviewers /\ u \in pr.requestedReviewers

\* C5: the review counter grows only on an item whose author is a member of a
\* configured reviewer team or, when requested reviewers are respected, a
\* requested reviewer of the pull request.
C5_OnlyReviewersCount ==
    [][prReviews' > prReviews => ClaimedReviewer(mopts, pull, cur'.user)]_vars

\* the policy of C6: every field at its default but minApprovals = 2
MinTwoApprovals == FillDefaults(WithMinApprovals(InitialOptions, 2))

C6_Case(n) ==
    /\ pc = "done"
    /\ retAt = "check"
    /\ mopts = MinTwoApprovals
    /\ nC = n
    /\ nR = 0
    /\ qualA = n

C6_CitesOneOfTwo ==
    /\ ~result.ok
    /\ result.err.kind = "counts"
    /\ result.err.approvals = 1
    /\ result.err.minApprovals = 2

\* C6 as stated: two qualifying approval comments and minApprovals = 2 give
\* ok = true; one gives a failure citing 1/2.
C6_TwoApprovalsSucceed ==
    /\ C6_Case(2) => result.ok
    /\ C6_Case(1) => C6_CitesOneOfTwo

\* C6 amended: with two qualifying approval comments and minApprovals = 2 the
\* approval minimum is met, and ok = true exactly when the review counter also
\* reaches the default minReviews = 1; one comment gives a failure citing 1/2.
C6_TwoApprovalsNeedReview ==
    /\ C6_Case(2) => (prApprovals = 2 /\ result.ok = (prReviews >= 1))
    /\ C6_Case(1) => C6_CitesOneOfTwo

\* two approval comments of which one is also a review: the call succeeds
C6_Witness == C6_Case(2) /\ result.ok

\* C7: with no allowed states set, a closed pull request fails at the state
\* gate: the error is the state mismatch and nothing else is looked at.
C7_ClosedFailsOnState ==
    (pull.fetched /\ pull.state = "closed" /\ Len(mopts.states) = 0) =>
        /\ pc = "done"
        /\ retAt = "gates"
        /\ ~result.ok
        /\ result.err.kind = "state"
        /\ nC = 0
        /\ nR = 0

\* a closed draft carrying an ignored label, reported as a state mismatch
C7_Witness ==
    /\ pull.fetched
    /\ pull.state = "closed"
    /\ pull.draft
    /\ "ci/wait" \in pull.labels
    /\ mopts.ignoreLabels # <<>>
    /\ Len(mopts.states) = 0
    /\ result.err.kind = "state"

\* the shape of a returned triple: ok, whether res is nil, whether err is nil
Form(r) == <<r.ok, r.resNil, r.err.kind = "nil">>

\* C8: a policy failure (a gate or the count check said no) is returned in a
\* form that differs from the form of a failed remote call.
C8_PolicyFailureHasOwnForm ==
    (pc = "done" /\ retAt \in {"gates", "check"} /\ ~result.ok) =>
        Form(result) # Form(Failure(Err("get-pull")))

-----------------------------------------------------------------------------
(* Claims about the workload tracker (SpecPop) *)

MaintainerPop == popped'.kind = "maintainer" /\ maintainerWorkload' # maintainerWorkload

ReviewerPop == popped'.kind = "reviewer" /\ reviewerWorkload' # reviewerWorkload

LeastOf(workload) ==
    /\ popped'.least \in popped'.subset
    /\ \A c \in popped'.subset :
          LoadOf(workload, popped'.least) <= LoadOf(workload, c)

\* C9: a pop returns a candidate whose count at call time, absent candidates
\* counted as 0, is the minimum over the candidates; with {alice: 2, bob: 0}
\* the maintainer popped is bob.
C9_PopReturnsLeastLoaded ==
    [][/\ MaintainerPop => LeastOf(maintainerWorkload)
       /\ ReviewerPop => LeastOf(reviewerWorkload)
       /\ ( /\ MaintainerPop
            /\ popped'.subset = {"alice", "bob"}
            /\ LoadOf(maintainerWorkload, "alice") = 2
            /\ LoadOf(maintainerWorkload, "bob") = 0 ) => popped'.least = "bob"]_vars

\* the scenario of the claim, after the pop
C9_Witness ==
    /\ popped.kind = "maintainer"
    /\ popped.subset = {"alice", "bob"}
    /\ popped.least = "bob"
    /\ DOMAIN maintainerWorkload = {"alice", "bob"}
    /\ maintainerWorkload["alice"] = 2
    /\ maintainerWorkload["bob"] = 1

FrameOf(before, after) ==
    /\ DOMAIN after = DOMAIN before \cup popped'.subset
    /\ after[popped'.least] = LoadOf(before, popped'.least) + 1
    /\ \A u \in DOMAIN after \ {popped'.least} : after[u] = LoadOf(before, u)

\* C10: one pop adds exactly 1 to the returned user's count, enters every absent
\* candidate with 0 and changes no other count, in either map.
C10_PopFrame ==
    [][/\ MaintainerPop => ( /\ FrameOf(maintainerWorkload, maintainerWorkload')
                             /\ reviewerWorkload' = reviewerWorkload )
       /\ ReviewerPop => ( /\ FrameOf(reviewerWorkload, reviewerWorkload')
                           /\ maintainerWorkload' = maintainerWorkload )]_vars

\* a reviewer pop over alice and bob that left the other candidate at 0 and
\* kept the count of carol, who is no candidate
C10_Witness ==
    /\ popped.kind = "reviewer"
    /\ popped.subset = {"alice", "bob"}
    /\ DOMAIN reviewerWorkload = Handles
    /\ reviewerWorkload[popped.least] = 1
    /\ \E u \in popped.subset : reviewerWorkload[u] = 0
    /\ reviewerWorkload["carol"] = 2

-----------------------------------------------------------------------------
(* Claims about the assignment step *)

NoRepeat(s) == \A i, j \in DOMAIN s : i # j => s[i] # s[j]

\* C11: within one call, when NumMaintainers (NumReviewers) does not exceed the
\* number of candidates, the successive pops of the maintainer (reviewer) loop
\* return pairwise distinct users.
C11_PopsPairwiseDistinct ==
    /\ (pc = "popM" /\ NumMaintainers <= Len(possibleMaintainers))
          => NoRepeat(maintainers)
    /\ (pc = "popR" /\ NumReviewers <= Len(possibleReviewers))
          => NoRepeat(reviewers)

\* C12: after the assignment step has returned nil, no user is both among the
\* assignees (found or newly assigned) and among the reviewers (found or newly
\* requested) of the pull request.
C12_AssigneesAndReviewersDisjoint ==
    (pc = "returned" /\ assignErr = "nil")
        => Range(maintainers) \cap Range(reviewers) = {}

\* C28: every call of popLeastStressedMaintainer and popLeastStressedReviewer
\* is given a candidate list with at least one user, also after the assigned
\* maintainers were removed from the possible reviewers.
C28_PopsOnNonEmptyList ==
    popped.kind # "none" => popped.subset # {}

-----------------------------------------------------------------------------
(* Claims about `team sync` *)

\* the positions in calls of the upserts of the team called name
UpsertsOf(name) ==
    { k \in DOMAIN calls : calls[k].op = "upsert" /\ calls[k].team = name }

\* team i names as Parent a team that is among the loaded ones
ParentLoaded(i) ==
    /\ teams[i].Parent # <<>>
    /\ FindTeamByName(teams[i].Parent, teams) # 0

\* C13: for every team whose parent is among the loaded definitions, the
\* upsert of the parent comes before the upsert of the team.
C13_ParentUpsertedFirst ==
    \A i \in DOMAIN teams :
        ParentLoaded(i) =>
            \A k \in UpsertsOf(teams[i].Name) :
                \E j \in UpsertsOf(teams[FindTeamByName(teams[i].Parent, teams)].Name) :
                    j < k

\* C14: once the definitions are loaded, every team whose Parent names a
\* loaded team has ParentTeam linked to that team.
C14_EveryParentLinked ==
    pc # "load" =>
        \A i \in DOMAIN teams :
            ParentLoaded(i) =>
                teams[i].ParentTeam = FindTeamByName(teams[i].Parent, teams)

\* the place of a call in the order of one Team.Sync: upsert, listing,
\* removals, additions for the team, then for its maintainers sub-team, then
\* for its reviewers sub-team; 0 for a call on another team
Rank(t, c) ==
    LET base == CASE c.team = t.Name -> 0
                  [] c.team = <<"maintainers">> \o t.Name -> 4
                  [] c.team = <<"reviewers">> \o t.Name -> 8
                  [] OTHER -> -100
        step == CASE c.op = "upsert" -> 1
                  [] c.op = "list" -> 2
                  [] c.op = "remove" -> 3
                  [] c.op = "add" -> 4
    IN  IF base < 0 THEN 0 ELSE base + step

\* the ranks of the calls of team t among calls, in order
Ranks(t) ==
    LET own == SelectSeq(calls, LAMBDA c : Rank(t, c) > 0)
    IN  [k \in DOMAIN own |-> Rank(t, own[k])]

OwnCallsInOrder(t) ==
    LET rs == Ranks(t)
        count(r) == Cardinality({ k \in DOMAIN rs : rs[k] = r })
    IN  /\ \A k \in 1..(Len(rs) - 1) : rs[k] <= rs[k + 1]
        /\ count(1) = 1
        /\ count(2) = 1
        /\ count(5) = (IF Len(t.Maintainers) > 0 THEN 1 ELSE 0)
        /\ count(6) = (IF Len(t.Maintainers) > 0 THEN 1 ELSE 0)
        /\ count(9) = (IF Len(t.Reviewers) > 0 THEN 1 ELSE 0)
        /\ count(10) = (IF Len(t.Reviewers) > 0 THEN 1 ELSE 0)

ParentCallsFirst(t) ==
    t.ParentTeam # 0 =>
        /\ teams[t.ParentTeam].hasSynced
        /\ LET ofParent == { j \in DOMAIN calls :
                               Rank(teams[t.ParentTeam], calls[j]) > 0 }
               own == { k \in DOMAIN calls : Rank(t, calls[k]) > 0 }
           IN  \A j \in ofParent : \A k \in own : j < k

\* C15: a team is marked synced only when its Team.Sync has made its calls in
\* the order: sync of the linked parent, upsert of the team, membership sync of
\* the team, upsert and membership sync of the maintainers sub-team if there
\* is a maintainer, the same for the reviewers sub-team if there is a
\* reviewer; a run that ended on an error has not marked the team it was
\* syncing.
C15_SyncStepsInOrder ==
    /\ \A i \in DOMAIN teams :
          teams[i].hasSynced =>
              /\ OwnCallsInOrder(teams[i])
              /\ ParentCallsFirst(teams[i])
    /\ pc = "exit" => ~teams[idx + 1].hasSynced

\* a finished run in which a team with a maintainer and a reviewer was synced
\* after its linked parent
C15_Witness ==
    /\ pc = "done"
    /\ \E i \in DOMAIN teams :
          /\ teams[i].hasSynced
          /\ teams[i].ParentTeam # 0
          /\ Len(teams[i].Maintainers) > 0
          /\ Len(teams[i].Reviewers) > 0

\* C16: a Team.Sync call on a team that is already synced does not get past
\* its first test, so it makes no call; every team is upserted at most once in
\* a run.
C16_SyncedTeamNotSyncedAgain ==
    /\ \A f \in DOMAIN stack :
          teams[stack[f].t].hasSynced => stack[f].at = "enter"
    /\ \A k \in DOMAIN calls :
          calls[k].op = "upsert" => UpsertsOf(calls[k].team) = {k}

\* a finished run in which the loop reached a parent that had already been
\* synced from its child, listed before it
C16_Witness ==
    /\ pc = "done"
    /\ \E i \in DOMAIN teams :
          /\ teams[i].ParentTeam > i
          /\ teams[i].hasSynced
          /\ UpsertsOf(teams[teams[i].ParentTeam].Name) # {}

\* C17: once a team is synced, its members on GitHub are its maintainers,
\* reviewers and members, the members of its maintainers sub-team are its
\* maintainers and the members of its reviewers sub-team are its reviewers.
C17_MembersReconciled ==
    \A i \in DOMAIN teams :
        teams[i].hasSynced =>
            LET t == teams[i]
                m == subTeamName("maintainer", t.shortName)
                r == subTeamName("reviewer", t.shortName)
            IN  /\ ghTeams[t.Name].members
                      = Range(t.Maintainers) \cup Range(t.Reviewers) \cup Range(t.Members)
                /\ m \in DOMAIN ghTeams => ghTeams[m].members = Range(t.Maintainers)
                /\ r \in DOMAIN ghTeams => ghTeams[r].members = Range(t.Reviewers)

\* SyncTeamMembers returned the error of a removal or of an addition
MemberCallFailed ==
    /\ pc = "exit"
    /\ syncErr.kind \in {"could not remove user", "could not add user"}

\* the calls that followed the listing of the failed SyncTeamMembers
CallsOfFailedSync ==
    LET last == CHOOSE k \in DOMAIN calls :
                    /\ calls[k].op = "list"
                    /\ \A j \in DOMAIN calls : calls[j].op = "list" => j <= k
    IN  SubSeq(calls, last + 1, Len(calls))

\* the usernames the failed SyncTeamMembers was given
MembersOfFailedSync ==
    LET s == CHOOSE s \in (DOMAIN teams) \X {"members", "mMembers", "rMembers"} :
                 stageTeam(teams[s[1]], s[2]) = syncErr.team
    IN  stageMembers(teams[s[1]], s[2])

\* x stands before y in the list s
Before(s, x, y) ==
    \E i, j \in DOMAIN s : i < j /\ s[i] = x /\ s[j] = y

\* C18: when a removal or an addition fails, SyncTeamMembers returns an error
\* naming the user of that call; the calls it made are those that come
\* before the failed one (removals before additions, additions in the order
\* of the list given), none comes after, and what they changed is still in
\* place.
C18_FailureStopsAndKeeps ==
    MemberCallFailed =>
        LET done == CallsOfFailedSync
            now == ghTeams[syncErr.team].members
            want == MembersOfFailedSync
        IN  /\ syncErr.user # ""
            /\ \A k \in DOMAIN done :
                  /\ done[k].team = syncErr.team
                  /\ done[k].user # syncErr.user
                  /\ done[k].op \in {"remove", "add"}
                  /\ done[k].op = "remove" => done[k].user \notin now
                  /\ done[k].op = "add" => done[k].user \in now
                  /\ syncErr.kind = "could not remove user" => done[k].op = "remove"
                  /\ (syncErr.kind = "could not add user" /\ done[k].op = "add")
                        => Before(want, done[k].user, syncErr.user)
            /\ syncErr.kind = "could not remove user"
                  => (syncErr.user \in now /\ syncErr.user \notin Range(want))
            /\ syncErr.kind = "could not add user"
                  => (syncErr.user \notin now /\ syncErr.user \in Range(want))

\* the addition of the second user failed after the first had been added
C18_Witness ==
    /\ MemberCallFailed
    /\ syncErr.kind = "could not add user"
    /\ \E k \in DOMAIN CallsOfFailedSync : CallsOfFailedSync[k].op = "add"

\* the run synced the one definition of sig-net with maintainer alice and
\* reviewer bob, and every team of the organisation was created by this run
SigNetOnly ==
    /\ files = <<[Name |-> <<"sig", "net">>, Parent |-> <<>>,
                  Maintainers |-> <<"alice">>, Reviewers |-> <<"bob">>,
                  Members |-> <<>>]>>
    /\ \A n \in DOMAIN ghTeams : UpsertsOf(n) # {}
    /\ pc = "done"

\* the users of the calls of kind op on the team called name, in order
UsersOf(op, name) ==
    LET cs == SelectSeq(calls, LAMBDA c : c.op = op /\ c.team = name)
    IN  [k \in DOMAIN cs |-> cs[k].user]

C20_SigTeamNamedAsDefined ==
    pc = "done" =>
        \A i \in DOMAIN files :
            (Len(files[i].Name) = 2 /\ files[i].Name[1] = "sig") =>
                /\ UpsertsOf(files[i].Name) # {}
                /\ \A k \in DOMAIN calls :
                      ( /\ calls[k].op = "upsert"
                        /\ calls[k].team \in {<<"maintainers", files[i].Name[2]>>,
                                              <<"reviewers", files[i].Name[2]>>} )
                          => calls[k].parent = files[i].Name

-----------------------------------------------------------------------------
(* Claims about `pr sync` (SpecPrSync, SpecLabels) *)

\* some definition file the command loads is invalid: a repository, a team
\* or a label without a name, or a listed user without a GitHub username
InvalidDefinitions ==
    \/ NewListOfReposFromPath(repoFiles).err # ""
    \/ \E i \in DOMAIN files : NewTeamFromYAMLError(files[i]) # ""
    \/ NewListOfLabelsFromPath(labelFiles).err # ""

\* C21: when a definition file is invalid, the command does not return nil
\* and no GitHub call has been issued, at any point of the run and so at the
\* point where it aborts.
C21_InvalidDefinitionsAbortBeforeCalls ==
    InvalidDefinitions => issued = <<>> /\ runErr # "nil"

\* C22: with DryRun set, none of the calls `pr sync reviewers` and
\* `pr sync labels` have issued is one that changes GitHub.
C22_DryRunIssuesNoWrite ==
    DryRun => \A i \in DOMAIN issued : ~issued[i].mutates

\* C22, its case: a dry run of `pr sync reviewers` that has picked both a
\* maintainer and a reviewer for a pull request that had neither, and has
\* returned nil
C22_Witness ==
    /\ DryRun
    /\ pc = "returned"
    /\ assignErr = "nil"
    /\ popped.kind = "reviewer"
    /\ Len(maintainers) > 0
    /\ Len(reviewers) > 0
    /\ ghPr.assignees = <<>>
    /\ ghPr.requestedReviewers = <<>>

\* C23: every AppliesTo(repo, file) call returned true exactly when the
\* label's repo filter is empty or contains repo and one of its path
\* patterns matches file; the loaded labels are what they were before the
\* calls.
C23_AppliesToIsRepoAndPathMatch ==
    /\ \A a \in applied :
          a.ok = (/\ \/ a.label.ApplyOnPrMatchRepos = <<>>
                     \/ a.repo \in Range(a.label.ApplyOnPrMatchRepos)
                  /\ \E p \in Range(a.label.ApplyOnPrMatchPaths) : Match(p, a.file))
    /\ pc = "lAdd" => labels = labelFiles

\* C23, its case: among the calls made, one that returned true through the
\* second pattern of a label, and one on a label whose pattern matches the
\* file and whose repo filter leaves the repository out
C23_Witness ==
    /\ pc = "lAdd"
    /\ \E a \in applied :
          /\ a.ok
          /\ Len(a.label.ApplyOnPrMatchPaths) = 2
          /\ ~Match(a.label.ApplyOnPrMatchPaths[1], a.file)
    /\ \E b \in applied :
          /\ b.label.ApplyOnPrMatchRepos # <<>>
          /\ b.repo \notin Range(b.label.ApplyOnPrMatchRepos)
          /\ \E p \in Range(b.label.ApplyOnPrMatchPaths) : Match(p, b.file)

-----------------------------------------------------------------------------
(* Claims about Repository.NameEquals (SpecRepo) *)

\* C24: for a repository with a type and a name without prefix, the last
\* NameEquals(n) call returned true exactly when n is that name or that name
\* behind the repository's own type.
C24_NameEqualsOwnPrefixOnly ==
    asked.called /\ repo.Type # "" /\ Len(repo.Name) = 1
        => asked.equal = NameEqualsOwnType(repo, asked.name)

-----------------------------------------------------------------------------
(* Claims about GithubClient.UserMemberOfTeam (SpecMember) *)

\* C25: a check for a username and team that an earlier call has already
\* evaluated makes no remote team-members query.
C25_SecondCheckAnsweredFromCache ==
    \A i, j \in DOMAIN checks :
        /\ i < j
        /\ ~checks[i].panic
        /\ checks[i].username = checks[j].username
        /\ checks[i].team = checks[j].team
        => ~checks[j].queried

\* C27: a call whose remote query, if it made one, succeeded has returned,
\* and returned true exactly when the user is a member of the team on the
\* remote, whatever calls came before it.
C27_AnswerIsRemoteMembership ==
    \A i \in DOMAIN checks :
        ~checks[i].failed
            => /\ ~checks[i].panic
               /\ checks[i].ok = (checks[i].username \in TeamMembers[checks[i].team])

-----------------------------------------------------------------------------
(* Claims about `pr merge` (SpecRun) *)

\* C26: with the mergeability check enabled, every command issued that
\* changes something (the push of the temporary branch, gh pr edit, gh pr
\* merge, git am, the push to the base branch) was issued after
\* SatisfiesMergeRequirements returned ok = true and no error.
C26_NoMutationUnlessMergable ==
    ~NoCheckMergable
        => \A i \in DOMAIN issued :
               issued[i].mutates
                   => result.returned /\ result.ok /\ result.err = NoErr

\* C26, its case: a run with the check enabled that has merged the pull
\* request and pushed the base branch
C26_Witness ==
    /\ ~NoCheckMergable
    /\ pc = "returned"
    /\ runErr = "nil"
    /\ \E i, j \in DOMAIN issued :
          /\ issued[i].call = "gh pr merge"
          /\ issued[j].call = "git push BaseBranch"

\* C29: when Run has returned, the gh CLI is logged in with the user's own
\* token.
C29_TokenRestoredOnReturn ==
    pc = "returned" => ghAuth = "user"

-----------------------------------------------------------------------------
(* Claims about `team sync` over any TeamsDir (SpecSyncAny) *)

\* C30: Team.Sync comes to an end for every set of team definitions, cyclic
\* parents and a team that is its own parent included: no more Team.Sync
\* calls are nested than there are teams, and the stack never runs out.
C30_SyncRecursionBounded ==
    /\ Len(stack) <= Len(teams)
    /\ pc # "overflow"


=============================================================================
